---- MODULE Spec2Model ----
(***************************************************************************)
(* Checkout, inventory, cart and order-list flow of the shop backend:      *)
(*   createOrder, capturePayment, getAllOrdersByUser, getOrderDetails      *)
(*                       (controllers/shop/order-controller.js)            *)
(*   addToCart, fetchCartItems, updateCartItemQty, deleteCartItem          *)
(*                       (controllers/shop/cart-controller.js)             *)
(*   addProduct, editProduct                                               *)
(*                       (controllers/admin/products-controller.js)        *)
(*   the caches of the shop products, search, admin products and auth      *)
(*   controllers.                                                          *)
(* The product, order and cart collections and the in-memory caches are    *)
(* the shared state.  A createOrder or capturePayment request is a         *)
(* process whose steps are the points at which it touches the database or  *)
(* the payment gateway.  A cart or listing request is one step where the   *)
(* requests come one at a time, and a process with a step per await where  *)
(* they overlap (SpecOrderCache, SpecCartRequests).                        *)
(* Specifications: Spec (orders, captures, stock edits), SpecRace (two     *)
(* checkouts), SpecAmount (stated prices and totals), SpecCart (cart       *)
(* writes), SpecCartRead (cart reads, price edits, time), SpecCheckout     *)
(* (checkout of a cart that is being read), SpecList (order listing),      *)
(* SpecAdmin (the catalogue), SpecStockChecks (every stock check beside    *)
(* the cart cache), SpecOrderCache (order reads overlapping order writes), *)
(* SpecTtl (cache lifetimes), SpecMapSize (cache sizes), SpecGateway       *)
(* (createOrder with a gateway that may fail or stay silent; fair),        *)
(* SpecCartRequests (overlapping cart requests).                           *)
(***************************************************************************)
EXTENDS Integers, Sequences, FiniteSets, TLC

\* ---------------------------------------------------------------- bounds
MaxStock == 2
MaxQty == 2
MaxItems == 2
MaxCreates == 1
MaxCheckouts == 2
MaxCaptures == 2
MaxEdits == 1
MaxTime == 3
MaxOrders == 3
MaxDate == 2
MaxLists == 2
MaxPage == 3
MaxLimit == 2

\* ---------------------------------------------------------------- domains
Products == {"p1", "p2"}
\* "px" is an id no product document has
ProductIds == Products \cup {"px"}
Missing == "missing"
Users == {"u1"}
CartIds == {"k1"}
NoCart == "nocart"
CreateReqs == 1..MaxCreates
CheckoutReqs == 1..MaxCheckouts
CaptureReqs == 1..MaxCaptures
\* totalStock of every product when the server starts
InitStock == [p \in Products |-> MaxStock]

\* amounts of money are in thousandths of the currency unit
LineItems == [productId : ProductIds, quantity : 1..MaxQty, price : {20}]

RECURSIVE SeqsUpTo(_, _)
SeqsUpTo(S, n) ==
  IF n = 0 THEN {<<>>}
  ELSE LET shorter == SeqsUpTo(S, n - 1)
       IN shorter \cup {Append(s, x) : s \in {t \in shorter : Len(t) = n - 1}, x \in S}

CartItemLists == SeqsUpTo(LineItems, MaxItems)

\* the orderStatus / paymentStatus pair a client puts in the request body
ClientStatuses == {<<"pending", "pending">>, <<"confirmed", "paid">>}

\* the fields createOrder requires; a request body lacks a set of them
RequiredFields == {"userId", "cartItems", "addressInfo", "totalAmount"}
MissingSets == {{}} \cup {{f} : f \in RequiredFields}

\* sum of price * quantity over the line items
RECURSIVE ItemsTotal(_)
ItemsTotal(items) ==
  IF items = <<>> THEN 0
  ELSE Head(items).price * Head(items).quantity + ItemsTotal(Tail(items))

\* the total a client states for its line items: their sum, and some
\* positive amount for an empty list
ClientTotal(items) == IF items = <<>> THEN 20 ELSE ItemsTotal(items)

\* the request bodies a client can send to createOrder, with the stated
\* total and date fixed by the rest of the body
AllBodies ==
  {[missing |-> m, userId |-> u, cartItems |-> items, cartId |-> k,
    status |-> st, totalAmount |-> ClientTotal(items), orderDate |-> 1] :
     m \in MissingSets, u \in Users, items \in CartItemLists,
     k \in CartIds \cup {NoCart}, st \in ClientStatuses}

\* the bodies the storefront sends at checkout: the user's cart with its
\* line items of catalogue products, and a pending order
StorefrontBodies ==
  {b \in AllBodies :
     /\ b.missing = {}
     /\ b.cartId \in CartIds
     /\ b.status = <<"pending", "pending">>
     /\ Len(b.cartItems) = 1
     /\ \A i \in 1..Len(b.cartItems) : b.cartItems[i].productId \in Products}

NoResp == [code |-> 0, kind |-> "none", product |-> "", avail |-> 0]
Resp(c, k) == [code |-> c, kind |-> k, product |-> "", avail |-> 0]

VARIABLES
  stock,    \* Product.totalStock per product document
  orders,   \* Order collection, in order of insertion; the index is the _id
  carts,    \* _ids of the Cart documents that exist
  cr,       \* createOrder requests
  cap,      \* capturePayment requests
  edits,    \* number of admin edits performed
  prices,     \* Product.price and Product.salePrice per product document
  cartLines,  \* Cart.items of the cart document with each _id
  cartCache,  \* cartCache of the cart controller, by userId
  cartOut,    \* the last response of a cart handler
  orderCache, \* orderCache of the order controller: a set of entries
  listOut,    \* the last response of getAllOrdersByUser or getOrderDetails
  reads,      \* requests for orders whose database read is under way
  maps,       \* the Map caches of the product, search and auth controllers
  mapOut,     \* the last result of a lookup in one of the Map caches
  cartReq,    \* cart requests between their awaits
  now         \* Date.now(), in minutes

\* what the cart handlers read and write besides stock and carts
cartVars == <<prices, cartLines, cartCache, cartOut>>
\* what getAllOrdersByUser reads and writes besides orders
listVars == <<orderCache, listOut, reads>>

vars == <<stock, orders, carts, cr, cap, edits, cartVars, listVars, now, maps,
         mapOut, cartReq>>

IdleCreate ==
  [pc |-> "idle", userId |-> "", cartId |-> NoCart, cartItems |-> <<>>,
   orderStatus |-> "", paymentStatus |-> "", totalAmount |-> 0,
   orderDate |-> 0, gatewayCalled |-> FALSE, orderId |-> 0, resp |-> NoResp]

IdleCapture ==
  [pc |-> "idle", orderId |-> 0, paymentId |-> "", payerId |-> "",
   tasks |-> <<>>, retry |-> FALSE, resp |-> NoResp]

\* a JavaScript number: an integer, or NaN (which is also what arithmetic and
\* comparisons make of undefined)
JsNum(n) == [num |-> TRUE, n |-> n]
NaN == [num |-> FALSE, n |-> 0]
JsLt(a, b) == a.num /\ b.num /\ a.n < b.n
JsLe(a, b) == a.num /\ b.num /\ a.n <= b.n
JsGt(a, b) == a.num /\ b.num /\ a.n > b.n
JsAdd(a, b) == IF a.num /\ b.num THEN JsNum(a.n + b.n) ELSE NaN
JsMul(a, b) == IF a.num /\ b.num THEN JsNum(a.n * b.n) ELSE NaN

\* price and salePrice of every product when the server starts
InitPrices == [p \in Products |-> [price |-> 20, salePrice |-> 0]]

\* what getOptimizedCartData returns for no cart or a cart without items
EmptyCartData == [items |-> <<>>, cartTotal |-> JsNum(0)]

NoCache == [present |-> FALSE, data |-> EmptyCartData, expiry |-> 0]

NoCartOut ==
  [seq |-> 0, op |-> "none", userId |-> "", productId |-> "",
   quantity |-> NaN, code |-> 0, kind |-> "none", data |-> EmptyCartData,
   fromCache |-> FALSE]

\* the data of a listing response that carries none
NoListData ==
  [orders |-> <<>>, currentPage |-> 0, totalPages |-> 0, totalOrders |-> 0,
   hasNext |-> FALSE, hasPrev |-> FALSE]

\* the caches that are a Map in insertion order: cache of the shop products
\* controller, searchCache, adminCache and loginCache
MapNames == {"cache", "searchCache", "adminCache", "loginCache"}
NoMaps == [m \in MapNames |-> <<>>]
NoMapOut == [seq |-> 0, map |-> "", key |-> 0, hit |-> FALSE, expiry |-> -1]

NoListOut ==
  [seq |-> 0, code |-> 0, key |-> <<>>, data |-> NoListData,
   fromCache |-> FALSE]

\* no cart request and no listing request has been served yet
InitShop ==
  /\ prices = InitPrices
  /\ cartLines = [k \in CartIds |-> <<>>]
  /\ cartCache = [u \in Users |-> NoCache]
  /\ cartOut = NoCartOut
  /\ orderCache = {}
  /\ listOut = NoListOut
  /\ reads = <<>>
  /\ maps = NoMaps
  /\ mapOut = NoMapOut
  /\ cartReq = <<>>
  /\ now = 0

Init ==
  /\ stock = InitStock
  /\ orders = <<>>
  /\ carts = CartIds
  /\ cr = [r \in CreateReqs |-> IdleCreate]
  /\ cap = [c \in CaptureReqs |-> IdleCapture]
  /\ edits = 0
  /\ InitShop

\* ------------------------------------------------------------ createOrder

\* if (!userId || !cartItems || !addressInfo || !totalAmount): a field that
\* is absent is falsy, and so is a totalAmount of 0; an empty array is not
CreateBodyValid(b) ==
  ~("userId" \in b.missing \/ "cartItems" \in b.missing
      \/ "addressInfo" \in b.missing \/ "totalAmount" \in b.missing
      \/ b.totalAmount = 0)

\* the line item on which the stock loop stops: an item is bad when its
\* product is not in the map or the mapped stock is below the quantity
ItemBad(item, snapshot) ==
  \/ item.productId \notin DOMAIN snapshot
  \/ snapshot[item.productId] < item.quantity

\* FirstBadItem with the loop reporting the last bad line item
FirstBadItem_Last(items, snapshot) ==
  IF \E i \in 1..Len(items) : ItemBad(items[i], snapshot)
  THEN CHOOSE i \in 1..Len(items) :
         /\ ItemBad(items[i], snapshot)
         /\ \A j \in (i + 1)..Len(items) : ~ItemBad(items[j], snapshot)
  ELSE 0

\* index of the first bad line item in cart order, 0 when there is none
FirstBadItem(items, snapshot) ==
  IF \E i \in 1..Len(items) : ItemBad(items[i], snapshot)
  THEN CHOOSE i \in 1..Len(items) :
         /\ ItemBad(items[i], snapshot)
         /\ \A j \in 1..(i - 1) : ~ItemBad(items[j], snapshot)
  ELSE 0

\* the response of the stock loop for the line item it stopped on
StockLoopResp(item, snapshot) ==
  IF item.productId \notin DOMAIN snapshot
  THEN Resp(404, "notfound")
  ELSE [code |-> 400, kind |-> "insufficient",
        product |-> item.productId, avail |-> snapshot[item.productId]]

\* request received and validated; Product.find is issued for a valid body.
\* Requests are numbered in the order in which they are received.
CreateOrderReceive(r, bodies) ==
  /\ cr[r].pc = "idle"
  /\ \A q \in DOMAIN cr : q < r => cr[q].pc # "idle"
  /\ \E b \in bodies :
       IF ~CreateBodyValid(b)
       THEN cr' = [cr EXCEPT ![r].pc = "done",
                             ![r].resp = Resp(400, "missing")]
       ELSE cr' = [cr EXCEPT ![r] =
                     [@ EXCEPT !.pc = "find", !.userId = b.userId,
                               !.cartId = b.cartId,
                               !.cartItems = b.cartItems,
                               !.orderStatus = b.status[1],
                               !.paymentStatus = b.status[2],
                               !.totalAmount = b.totalAmount,
                               !.orderDate = b.orderDate]]
  /\ UNCHANGED <<maps, mapOut, cartReq, stock, orders, carts, cap, edits,
                 cartVars, listVars, now>>

\* Product.find answered: the stock loop runs over the line items and, when
\* it finds nothing, paypal.payment.create is issued
CreateOrderCheck(r) ==
  /\ cr[r].pc = "find"
  /\ LET bad == FirstBadItem(cr[r].cartItems, stock)
     IN IF bad # 0
        THEN cr' = [cr EXCEPT ![r].pc = "done",
                      ![r].resp = StockLoopResp(cr[r].cartItems[bad], stock)]
        ELSE cr' = [cr EXCEPT ![r].pc = "gateway",
                              ![r].gatewayCalled = TRUE]
  /\ UNCHANGED <<maps, mapOut, cartReq, stock, orders, carts, cap, edits,
                 cartVars, listVars, now>>

\* new Order({...}) with the fields of the request body
NewOrder(b) ==
  [userId |-> b.userId, cartId |-> b.cartId, cartItems |-> b.cartItems,
   orderStatus |-> b.orderStatus, paymentStatus |-> b.paymentStatus,
   totalAmount |-> b.totalAmount, orderDate |-> b.orderDate,
   paymentId |-> "", payerId |-> ""]

\* GatewayFail with the order saved before the error is looked at
GatewayFail_SavesOrder(r) ==
  /\ cr[r].pc = "gateway"
  /\ orders' = Append(orders, NewOrder(cr[r]))
  /\ cr' = [cr EXCEPT ![r].pc = "done", ![r].orderId = Len(orders) + 1,
                      ![r].resp = Resp(500, "payfail")]
  /\ UNCHANGED <<maps, mapOut, cartReq, stock, carts, cap, edits, cartVars,
                 listVars, now>>

\* the callback of paypal.payment.create is called with an error
GatewayFail(r) ==
  /\ cr[r].pc = "gateway"
  /\ cr' = [cr EXCEPT ![r].pc = "done", ![r].resp = Resp(500, "payfail")]
  /\ UNCHANGED <<maps, mapOut, cartReq, stock, orders, carts, cap, edits,
                 cartVars, listVars, now>>

\* total quantity the line items order of product p
RECURSIVE OrderQty(_, _)
OrderQty(items, p) ==
  IF items = <<>> THEN 0
  ELSE (IF Head(items).productId = p THEN Head(items).quantity ELSE 0)
       + OrderQty(Tail(items), p)

\* GatewaySuccess with the ordered quantities reserved when the order is saved
GatewaySuccess_Reserves(r) ==
  /\ cr[r].pc = "gateway"
  /\ orders' = Append(orders, NewOrder(cr[r]))
  /\ stock' = [p \in Products |-> stock[p] - OrderQty(cr[r].cartItems, p)]
  /\ cr' = [cr EXCEPT ![r].pc = "saved", ![r].orderId = Len(orders) + 1]
  /\ UNCHANGED <<maps, mapOut, cartReq, carts, cap, edits, cartVars, listVars,
                 now>>

\* the callback is called with the payment: the order is built and saved
GatewaySuccess(r) ==
  /\ cr[r].pc = "gateway"
  /\ orders' = Append(orders, NewOrder(cr[r]))
  /\ cr' = [cr EXCEPT ![r].pc = "saved", ![r].orderId = Len(orders) + 1]
  /\ UNCHANGED <<maps, mapOut, cartReq, stock, carts, cap, edits, cartVars,
                 listVars, now>>

\* clearOrderCache(userId): the entries whose key contains the user's id go
ClearedOrderCache(cache, userId) == {e \in cache : e.key[1] # userId}

\* clearOrderCache(userId) and res.status(201), after the save has been
\* acknowledged
CreateOrderRespond(r) ==
  /\ cr[r].pc = "saved"
  /\ cr' = [cr EXCEPT ![r].pc = "done", ![r].resp = Resp(201, "created")]
  /\ orderCache' = ClearedOrderCache(orderCache, cr[r].userId)
  /\ UNCHANGED <<maps, mapOut, cartReq, stock, orders, carts, cap, edits,
                 cartVars, listOut, reads,
                 now>>

\* ---------------------------------------------------------- capturePayment

\* if (!paymentId || !payerId || !orderId)
CaptureBodyValid(paymentId, payerId, orderId) ==
  /\ paymentId # Missing
  /\ payerId # Missing
  /\ orderId # 0

\* CaptureStockOk testing only that some stock is left
CaptureStockOk_AnyLeft(totalStock, quantity) == totalStock > 0

\* if (product.totalStock < item.quantity) throw
CaptureStockOk(totalStock, quantity) == ~(totalStock < quantity)

\* product.totalStock -= item.quantity
DecrementedStock(totalStock, quantity) == totalStock - quantity

\* order.cartItems.map(async ...): one task per line item, each of which has
\* issued its Product.findById
StartTasks(items) == [i \in 1..Len(items) |-> [st |-> "find", val |-> 0]]

\* some earlier capturePayment of the same order has already answered 200
AlreadyCaptured(c, orderId) ==
  \E d \in DOMAIN cap \ {c} :
     /\ cap[d].resp.kind = "captured"
     /\ cap[d].orderId = orderId

AllSaved(tasks) == \A i \in 1..Len(tasks) : tasks[i].st = "saved"

\* request received, validated, Order.findById answered, the in-memory order
\* marked paid/confirmed and the stock tasks started
CaptureStart(c) ==
  /\ cap[c].pc = "idle"
  /\ \A d \in DOMAIN cap : d < c => cap[d].pc # "idle"
  /\ \E paymentId \in {"PAY1", Missing}, payerId \in {"PAYER1", Missing},
        orderId \in {0} \cup DOMAIN cr :
       IF ~CaptureBodyValid(paymentId, payerId, orderId)
       THEN cap' = [cap EXCEPT ![c].pc = "done",
                               ![c].resp = Resp(400, "missing")]
       ELSE IF orderId \notin DOMAIN orders
       THEN cap' = [cap EXCEPT ![c].pc = "done",
                               ![c].resp = Resp(404, "notfound")]
       ELSE cap' = [cap EXCEPT ![c].pc = "stock",
                               ![c].orderId = orderId,
                               ![c].paymentId = paymentId,
                               ![c].payerId = payerId,
                               ![c].retry = AlreadyCaptured(c, orderId),
                               ![c].tasks = StartTasks(orders[orderId].cartItems)]
  /\ UNCHANGED <<maps, mapOut, cartReq, stock, orders, carts, cr, edits,
                 cartVars, listVars, now>>

\* Product.findById of task i is answered: the task checks the stock it read
\* and either throws or decrements its copy and issues product.save().  The
\* first throw rejects Promise.all, and the catch block answers 500 in the
\* same turn; the other tasks are not cancelled.
TaskRead(c, i) ==
  /\ i \in DOMAIN cap[c].tasks
  /\ cap[c].tasks[i].st = "find"
  /\ LET item == orders[cap[c].orderId].cartItems[i]
     IN IF item.productId \notin DOMAIN stock
        THEN cap' = [cap EXCEPT ![c].tasks[i].st = "failed",
                       ![c].pc = "done",
                       ![c].resp = IF cap[c].pc = "done" THEN @
                                   ELSE Resp(500, "notfound")]
        ELSE IF ~CaptureStockOk(stock[item.productId], item.quantity)
        THEN cap' = [cap EXCEPT ![c].tasks[i].st = "failed",
                       ![c].pc = "done",
                       ![c].resp = IF cap[c].pc = "done" THEN @
                                   ELSE [code |-> 500, kind |-> "insufficient",
                                         product |-> item.productId,
                                         avail |-> 0]]
        ELSE cap' = [cap EXCEPT ![c].tasks[i].st = "saving",
                       ![c].tasks[i].val =
                          DecrementedStock(stock[item.productId], item.quantity)]
  /\ UNCHANGED <<maps, mapOut, cartReq, stock, orders, carts, cr, edits,
                 cartVars, listVars, now>>

\* product.save() of task i reaches the database: totalStock is set to the
\* value the task computed from its own read
TaskWrite(c, i) ==
  /\ i \in DOMAIN cap[c].tasks
  /\ cap[c].tasks[i].st = "saving"
  /\ LET item == orders[cap[c].orderId].cartItems[i]
     IN stock' = [stock EXCEPT ![item.productId] = cap[c].tasks[i].val]
  /\ cap' = [cap EXCEPT ![c].tasks[i] = [st |-> "saved", val |-> 0]]
  /\ UNCHANGED <<maps, mapOut, cartReq, orders, carts, cr, edits, cartVars,
                 listVars, now>>

\* Promise.all resolved: if (order.cartId) Cart.findByIdAndDelete(order.cartId)
CaptureDeleteCart(c) ==
  /\ cap[c].pc = "stock"
  /\ AllSaved(cap[c].tasks)
  /\ LET cartId == orders[cap[c].orderId].cartId
     IN /\ carts' = IF cartId # NoCart THEN carts \ {cartId} ELSE carts
        /\ cartLines' = [k \in CartIds |->
                           IF k = cartId THEN <<>> ELSE cartLines[k]]
  /\ cap' = [cap EXCEPT ![c].pc = "cart"]
  /\ UNCHANGED <<maps, mapOut, cartReq, stock, orders, cr, edits, prices,
                 cartCache, cartOut,
                 listVars, now>>

\* order.save(): the four modified paths are written
CaptureSaveOrder(c) ==
  /\ cap[c].pc = "cart"
  /\ orders' = [orders EXCEPT ![cap[c].orderId] =
                  [@ EXCEPT !.paymentStatus = "paid",
                            !.orderStatus = "confirmed",
                            !.paymentId = cap[c].paymentId,
                            !.payerId = cap[c].payerId]]
  /\ cap' = [cap EXCEPT ![c].pc = "saved"]
  /\ UNCHANGED <<maps, mapOut, cartReq, stock, carts, cr, edits, cartVars,
                 listVars, now>>

\* clearOrderCache(order.userId) and res.status(200), after the order save
\* has been acknowledged
CaptureRespond(c) ==
  /\ cap[c].pc = "saved"
  /\ cap' = [cap EXCEPT ![c].pc = "done", ![c].resp = Resp(200, "captured")]
  /\ orderCache' =
       ClearedOrderCache(orderCache, orders[cap[c].orderId].userId)
  /\ UNCHANGED <<maps, mapOut, cartReq, stock, orders, carts, cr, edits,
                 cartVars, listOut, reads,
                 now>>

\* ------------------------------------------------------------ editProduct

\* const numStock = parseInt(totalStock);
\* if (!isNaN(numStock) && numStock >= 0) findProduct.totalStock = numStock;
EditedStock(old, numStock) == IF numStock >= 0 THEN numStock ELSE old

EditProduct(p) ==
  /\ edits < MaxEdits
  /\ \E numStock \in -1..MaxStock :
       stock' = [stock EXCEPT ![p] = EditedStock(@, numStock)]
  /\ edits' = edits + 1
  /\ UNCHANGED <<maps, mapOut, cartReq, orders, carts, cr, cap, cartVars,
                 listVars, now>>

\* ------------------------------------------------------------------ system

CaptureNext ==
  \/ \E c \in DOMAIN cap : CaptureStart(c)
  \/ \E c \in DOMAIN cap : \E i \in 1..MaxItems : TaskRead(c, i)
  \/ \E c \in DOMAIN cap : \E i \in 1..MaxItems : TaskWrite(c, i)
  \/ \E c \in DOMAIN cap : CaptureDeleteCart(c)
  \/ \E c \in DOMAIN cap : CaptureSaveOrder(c)
  \/ \E c \in DOMAIN cap : CaptureRespond(c)

CreateNext(bodies) ==
  \/ \E r \in DOMAIN cr : CreateOrderReceive(r, bodies)
  \/ \E r \in DOMAIN cr : CreateOrderCheck(r)
  \/ \E r \in DOMAIN cr : GatewayFail(r)
  \/ \E r \in DOMAIN cr : GatewaySuccess(r)
  \/ \E r \in DOMAIN cr : CreateOrderRespond(r)

\* the shop under arbitrary createOrder bodies, captures and admin edits
Next ==
  \/ CreateNext(AllBodies)
  \/ CaptureNext
  \/ \E p \in Products : EditProduct(p)

Spec == Init /\ [][Next]_vars

\* storefront checkouts racing for the same stock
InitRace ==
  /\ stock = InitStock
  /\ orders = <<>>
  /\ carts = CartIds
  /\ cr = [r \in CheckoutReqs |-> IdleCreate]
  /\ cap = [c \in CaptureReqs |-> IdleCapture]
  /\ edits = 0
  /\ InitShop

NextRace ==
  \/ CreateNext(StorefrontBodies)
  \/ CaptureNext

SpecRace == InitRace /\ [][NextRace]_vars

\* the totals a client states in the bodies of AmountBodies
ClientTotals == {0, 20, 24, 40, 48}

\* createOrder bodies with every field present, whose line items carry the
\* unit price the client states and whose total is any of ClientTotals
AmountBodies ==
  {[missing |-> {}, userId |-> u, cartItems |-> items, cartId |-> k,
    status |-> <<"pending", "pending">>, totalAmount |-> t, orderDate |-> 1] :
     u \in Users, k \in CartIds, t \in ClientTotals,
     items \in SeqsUpTo([productId : Products, quantity : 1..MaxQty,
                         price : {20, 24}], MaxItems)}

\* one createOrder request whose body states prices and a total
NextAmount == CreateNext(AmountBodies)

SpecAmount == Init /\ [][NextAmount]_vars

\* --------------------------------------------------------- cart controller

\* const CACHE_TTL = 2 * 60 * 1000, in minutes
CACHE_TTL == 2

\* the _ids further cart documents of the user get
MoreCartIds == {"k2", "k3"}

\* the user every cart document belongs to
CartOwner == [k \in CartIds \cup MoreCartIds |-> "u1"]

\* Cart.findOne({ userId }): the _id of the user's cart, NoCart when none
CartOf(userId) ==
  IF \E k \in carts : CartOwner[k] = userId
  THEN CHOOSE k \in carts : CartOwner[k] = userId
  ELSE NoCart

\* the _ids a new cart document can get: no document has had them
FreshCartIds ==
  {k \in CartIds \ carts : \A o \in DOMAIN orders : orders[o].cartId # k}

\* what a client sends as userId, productId and quantity; a missing quantity
\* is undefined
UserInputs == Users \cup {Missing}
ProductInputs == ProductIds \cup {Missing}
QtyInputs == {JsNum(n) : n \in 0..(MaxQty + 1)} \cup {NaN}

\* if (!userId || !productId || quantity <= 0) for addToCart and
\* updateCartItemQty; undefined <= 0 is false
CartBodyValid(userId, productId, quantity) ==
  ~(userId = Missing \/ productId = Missing \/ JsLe(quantity, JsNum(0)))

\* cart.items.findIndex(...): the first line of the product, 0 for -1
LineIndex(lines, productId) ==
  IF \E i \in 1..Len(lines) : lines[i].productId = productId
  THEN CHOOSE i \in 1..Len(lines) :
         /\ lines[i].productId = productId
         /\ \A j \in 1..(i - 1) : lines[j].productId # productId
  ELSE 0

\* product.salePrice > 0 ? product.salePrice : product.price
EffectivePrice(product) ==
  IF product.salePrice > 0 THEN product.salePrice ELSE product.price

\* Math.round(x * 100) / 100 on an amount in thousandths
Round2(x) == IF x.num THEN JsNum(((x.n + 5) \div 10) * 10) ELSE NaN

\* populatedCartItems: a line whose product is gone is dropped
RECURSIVE PopulatedItems(_, _)
PopulatedItems(lines, pr) ==
  IF lines = <<>> THEN <<>>
  ELSE LET item == Head(lines)
           rest == PopulatedItems(Tail(lines), pr)
       IN IF item.productId \notin DOMAIN pr THEN rest
          ELSE <<[productId |-> item.productId,
                  quantity |-> item.quantity,
                  price |-> pr[item.productId].price,
                  salePrice |-> pr[item.productId].salePrice,
                  totalStock |-> stock[item.productId],
                  itemTotal |-> JsMul(JsNum(EffectivePrice(pr[item.productId])),
                                      item.quantity)]>> \o rest

\* populatedCartItems.reduce((total, item) => total + item.itemTotal, 0)
RECURSIVE SumItemTotals(_)
SumItemTotals(items) ==
  IF items = <<>> THEN JsNum(0)
  ELSE JsAdd(SumItemTotals(SubSeq(items, 1, Len(items) - 1)),
             items[Len(items)].itemTotal)

\* getOptimizedCartData for a cart with these lines (<<>> for no cart) and
\* these product prices
CartDataOf(lines, pr) ==
  IF lines = <<>> THEN EmptyCartData
  ELSE LET items == PopulatedItems(lines, pr)
       IN [items |-> items, cartTotal |-> Round2(SumItemTotals(items))]

\* getOptimizedCartData(userId) on the current collections
CartData(userId) ==
  IF CartOf(userId) = NoCart THEN EmptyCartData
  ELSE CartDataOf(cartLines[CartOf(userId)], prices)

\* getCachedCart(userId): the cached data when there is an entry that has
\* not expired
CacheHit(userId) ==
  cartCache[userId].present /\ now < cartCache[userId].expiry

\* setCachedCart(userId, data)
CachedCart(data) ==
  [present |-> TRUE, data |-> data, expiry |-> now + CACHE_TTL]

\* the response of a cart handler
CartResp(op, userId, productId, quantity, code, kind, data, fromCache) ==
  [seq |-> 1 - cartOut.seq, op |-> op, userId |-> userId,
   productId |-> productId, quantity |-> quantity, code |-> code,
   kind |-> kind, data |-> data, fromCache |-> fromCache]

\* a cart handler answers an error without having written the cart; it has
\* cleared the user's cache entry when it got past the validation
CartReject(op, userId, productId, quantity, code, kind) ==
  /\ cartOut' = CartResp(op, userId, productId, quantity, code, kind,
                         EmptyCartData, FALSE)
  /\ cartCache' = IF kind = "invalid" THEN cartCache
                  ELSE [cartCache EXCEPT ![userId] = NoCache]
  /\ UNCHANGED <<maps, mapOut, cartReq, carts, cartLines>>

\* cart.save() of the cart with these lines, then getOptimizedCartData,
\* setCachedCart and the 200 response
CartSave(op, userId, productId, quantity, k, lines) ==
  /\ carts' = carts \cup {k}
  /\ cartLines' = [cartLines EXCEPT ![k] = lines]
  /\ LET data == CartDataOf(lines, prices)
     IN /\ cartCache' = [cartCache EXCEPT ![userId] = CachedCart(data)]
        /\ cartOut' = CartResp(op, userId, productId, quantity, 200, "ok",
                               data, FALSE)

\* what cart.save() stores of the items array of the document
SavedItems(lines) == lines

\* ReadStock taking the totalStock from a cached cart that shows the product
ReadStock_Cached(productId) ==
  IF \E u \in Users : \E i \in 1..Len(cartCache[u].data.items) :
        cartCache[u].data.items[i].productId = productId
  THEN LET u == CHOOSE v \in Users :
                  \E i \in 1..Len(cartCache[v].data.items) :
                     cartCache[v].data.items[i].productId = productId
           i == CHOOSE j \in 1..Len(cartCache[u].data.items) :
                  cartCache[u].data.items[j].productId = productId
       IN cartCache[u].data.items[i].totalStock
  ELSE stock[productId]

\* product.totalStock of the document Product.findById(productId) has just
\* read from the database
ReadStock(productId) == stock[productId]

\* StockBelow that is never true
StockBelow_Never(totalStock, quantity) == FALSE

\* if (product.totalStock < quantity)
StockBelow(totalStock, quantity) == JsLt(JsNum(totalStock), quantity)

\* MergeExceeds that is never true
MergeExceeds_Never(lines, productId, quantity, totalStock) == FALSE

\* the product has a line and newQuantity = old quantity + quantity is
\* above product.totalStock
MergeExceeds(lines, productId, quantity, totalStock) ==
  /\ LineIndex(lines, productId) # 0
  /\ JsGt(JsAdd(lines[LineIndex(lines, productId)].quantity, quantity),
          JsNum(totalStock))

\* AddedLines that pushes a new line whether or not the product has one
AddedLines_Push(lines, productId, quantity) ==
  Append(lines, [productId |-> productId, quantity |-> quantity])

\* the items array after the merge into the product's line or the push of
\* a new line
AddedLines(lines, productId, quantity) ==
  IF LineIndex(lines, productId) # 0
  THEN [lines EXCEPT ![LineIndex(lines, productId)].quantity =
                        JsAdd(@, quantity)]
  ELSE Append(lines, [productId |-> productId, quantity |-> quantity])

\* addToCart: validation, clearCachedCart, Product.findById, the stock test,
\* Cart.findOne (or a new cart), merge into the line of the product or push
\* a new line, cart.save(), getOptimizedCartData, setCachedCart, response
AddToCart(userId, productId, quantity) ==
  /\ IF ~CartBodyValid(userId, productId, quantity)
     THEN CartReject("add", userId, productId, quantity, 400, "invalid")
     ELSE IF productId \notin Products
     THEN CartReject("add", userId, productId, quantity, 404, "noproduct")
     ELSE IF StockBelow(ReadStock(productId), quantity)
     THEN CartReject("add", userId, productId, quantity, 400, "stock")
     ELSE LET found == CartOf(userId)
              lines == IF found = NoCart THEN <<>> ELSE cartLines[found]
          IN IF MergeExceeds(lines, productId, quantity, ReadStock(productId))
             THEN CartReject("add", userId, productId, quantity, 400, "stock")
             ELSE \E k \in (IF found = NoCart THEN FreshCartIds ELSE {found}) :
                    CartSave("add", userId, productId, quantity, k,
                       SavedItems(AddedLines(lines, productId, quantity)))
  /\ UNCHANGED <<maps, mapOut, cartReq, stock, orders, cr, cap, edits, prices,
                 listVars, now>>

\* fetchCartItems: the cached data while the entry has not expired, else
\* getOptimizedCartData and setCachedCart
FetchCartItems(userId) ==
  /\ IF userId = Missing
     THEN CartReject("fetch", userId, "", NaN, 400, "invalid")
     ELSE IF CacheHit(userId)
     THEN /\ cartOut' = CartResp("fetch", userId, "", NaN, 200, "ok",
                                 cartCache[userId].data, TRUE)
          /\ UNCHANGED <<carts, cartLines, cartCache>>
     ELSE LET data == CartData(userId)
          IN /\ cartOut' = CartResp("fetch", userId, "", NaN, 200, "ok",
                                    data, FALSE)
             /\ cartCache' = [cartCache EXCEPT ![userId] = CachedCart(data)]
             /\ UNCHANGED <<carts, cartLines>>
  /\ UNCHANGED <<maps, mapOut, cartReq, stock, orders, cr, cap, edits, prices,
                 listVars, now>>

\* UpdateExceeds that is never true
UpdateExceeds_Never(quantity, totalStock) == FALSE

\* if (quantity > product.totalStock)
UpdateExceeds(quantity, totalStock) == JsGt(quantity, JsNum(totalStock))

\* UpdatedLines that adds the requested quantity to the line
UpdatedLines_Adds(lines, i, quantity) ==
  [lines EXCEPT ![i].quantity = JsAdd(@, quantity)]

\* cart.items[findCurrentProductIndex].quantity = quantity
UpdatedLines(lines, i, quantity) == [lines EXCEPT ![i].quantity = quantity]

\* updateCartItemQty: validation, clearCachedCart, Product.findById and
\* Cart.findOne, the tests in the order of the code, the line's quantity set
\* to the requested one, cart.save(), getOptimizedCartData, setCachedCart
UpdateCartItemQty(userId, productId, quantity) ==
  /\ IF ~CartBodyValid(userId, productId, quantity)
     THEN CartReject("update", userId, productId, quantity, 400, "invalid")
     ELSE IF productId \notin Products
     THEN CartReject("update", userId, productId, quantity, 404, "noproduct")
     ELSE IF UpdateExceeds(quantity, ReadStock(productId))
     THEN CartReject("update", userId, productId, quantity, 400, "stock")
     ELSE IF CartOf(userId) = NoCart
     THEN CartReject("update", userId, productId, quantity, 404, "nocart")
     ELSE LET k == CartOf(userId)
              i == LineIndex(cartLines[k], productId)
          IN IF i = 0
             THEN CartReject("update", userId, productId, quantity,
                             404, "noitem")
             ELSE CartSave("update", userId, productId, quantity, k,
                    SavedItems(UpdatedLines(cartLines[k], i, quantity)))
  /\ UNCHANGED <<maps, mapOut, cartReq, stock, orders, cr, cap, edits, prices,
                 listVars, now>>

\* WithoutProduct that takes the first line away
WithoutProduct_First(lines, productId) ==
  IF lines = <<>> THEN <<>> ELSE Tail(lines)

\* cart.items.filter(item => item.productId.toString() !== productId)
WithoutProduct(lines, productId) ==
  SelectSeq(lines, LAMBDA item : item.productId # productId)

\* deleteCartItem: validation, clearCachedCart, Cart.findOne, the lines of
\* the product filtered out, cart.save(), getOptimizedCartData, setCachedCart
DeleteCartItem(userId, productId) ==
  /\ IF userId = Missing \/ productId = Missing
     THEN CartReject("delete", userId, productId, NaN, 400, "invalid")
     ELSE IF CartOf(userId) = NoCart
     THEN CartReject("delete", userId, productId, NaN, 404, "nocart")
     ELSE LET k == CartOf(userId)
              kept == WithoutProduct(cartLines[k], productId)
          IN IF Len(kept) = Len(cartLines[k])
             THEN CartReject("delete", userId, productId, NaN, 404, "noitem")
             ELSE CartSave("delete", userId, productId, NaN, k,
                           SavedItems(kept))
  /\ UNCHANGED <<maps, mapOut, cartReq, stock, orders, cr, cap, edits, prices,
                 listVars, now>>

\* if (!isNaN(numPrice) && numPrice >= 0) findProduct.price = numPrice
EditedPrice(old, numPrice) == IF numPrice >= 0 THEN numPrice ELSE old

\* editProduct with price and salePrice in the body: the product is saved
\* and the cache of the admin controller cleared, no other cache
EditProductPrice(p) ==
  /\ edits < MaxEdits
  /\ \E numPrice \in {-1, 30}, numSalePrice \in {0, 10} :
       prices' = [prices EXCEPT ![p] =
                    [price |-> EditedPrice(@.price, numPrice),
                     salePrice |-> numSalePrice]]
  /\ edits' = edits + 1
  /\ UNCHANGED <<maps, mapOut, cartReq, stock, orders, carts, cr, cap,
                 cartLines, cartCache, cartOut,
                 listVars, now>>

\* a minute passes
Tick ==
  /\ now < MaxTime
  /\ now' = now + 1
  /\ UNCHANGED <<maps, mapOut, cartReq, stock, orders, carts, cr, cap, edits,
                 cartVars, listVars>>

\* a shopper's cart requests, one at a time, with admin edits of the stock
\* in between; nobody has a cart yet
InitCart ==
  /\ stock = InitStock
  /\ orders = <<>>
  /\ carts = {}
  /\ cr = <<>>
  /\ cap = <<>>
  /\ edits = 0
  /\ InitShop

NextCart ==
  \/ \E u \in UserInputs, p \in ProductInputs, q \in QtyInputs :
       AddToCart(u, p, q)
  \/ \E u \in UserInputs, p \in ProductInputs, q \in QtyInputs :
       UpdateCartItemQty(u, p, q)
  \/ \E u \in UserInputs, p \in ProductInputs : DeleteCartItem(u, p)
  \/ \E u \in UserInputs : FetchCartItems(u)
  \/ \E p \in Products : EditProduct(p)

SpecCart == InitCart /\ [][NextCart]_vars

\* a shopper fills and reads the cart while an admin edits prices and time
\* passes
NextCartRead ==
  \/ \E u \in Users, p \in Products, q \in QtyInputs : AddToCart(u, p, q)
  \/ \E u \in Users, p \in Products : DeleteCartItem(u, p)
  \/ \E u \in UserInputs : FetchCartItems(u)
  \/ \E p \in Products : EditProductPrice(p)
  \/ Tick

SpecCartRead == InitCart /\ [][NextCartRead]_vars

\* a shopper whose cart holds one line checks out and pays, and reads the
\* cart before and after
InitCheckout ==
  /\ stock = InitStock
  /\ orders = <<>>
  /\ carts = CartIds
  /\ cr = [r \in CreateReqs |-> IdleCreate]
  /\ cap = [c \in CaptureReqs |-> IdleCapture]
  /\ edits = 0
  /\ prices = InitPrices
  /\ cartLines \in [CartIds -> {<<[productId |-> p, quantity |-> JsNum(1)]>> :
                                  p \in Products}]
  /\ cartCache = [u \in Users |-> NoCache]
  /\ cartOut = NoCartOut
  /\ orderCache = {}
  /\ listOut = NoListOut
  /\ reads = <<>>
  /\ maps = NoMaps
  /\ mapOut = NoMapOut
  /\ cartReq = <<>>
  /\ now = 0

NextCheckout ==
  \/ CreateNext(StorefrontBodies)
  \/ CaptureNext
  \/ \E u \in Users : FetchCartItems(u)
  \/ Tick

SpecCheckout == InitCheckout /\ [][NextCheckout]_vars

\* ---------------------------------------------------- getAllOrdersByUser

\* const ORDER_CACHE_TTL = 5 * 60 * 1000, in minutes
ORDER_CACHE_TTL == 5

\* the users who have orders
Shoppers == Users \cup {"u2"}

\* the order documents createOrder can have saved: user, statuses and
\* orderDate are those of the request body
StoredOrders ==
  {NewOrder([userId |-> u, cartId |-> NoCart,
             cartItems |-> <<[productId |-> "p1", quantity |-> 1,
                              price |-> 20]>>,
             orderStatus |-> st[1], paymentStatus |-> st[2],
             totalAmount |-> 20, orderDate |-> d]) :
     u \in Shoppers, st \in ClientStatuses, d \in 1..MaxDate}

\* what a client sends as page, limit and status; a missing status is
\* undefined
PageInputs == 0..MaxPage
LimitInputs == 0..MaxLimit
StatusInputs == {Missing, "all", "pending"}

\* `orders_${userId}_${page}_${limit}_${status || 'all'}`
CacheKey(userId, page, limit, status) ==
  <<userId, page, limit, IF status = Missing THEN "all" ELSE status>>

\* getCachedOrder(key) finds an entry that has not expired
OrderCacheHit(key) ==
  \E e \in orderCache : e.key = key /\ now < e.expiry

\* $match: { userId } and, if (status && status !== 'all'), orderStatus
Matched(userId, status) ==
  {o \in DOMAIN orders :
     /\ orders[o].userId = userId
     /\ (status # Missing /\ status # "all")
        => orders[o].orderStatus = status}

\* $sort: { orderDate: -1 }: the orders by descending orderDate, those of
\* equal orderDate in any order
SortedByDate(ids) ==
  {s \in [1..Cardinality(ids) -> ids] :
     /\ \A i, j \in 1..Cardinality(ids) : i # j => s[i] # s[j]
     /\ \A i, j \in 1..Cardinality(ids) :
          i < j => orders[s[i]].orderDate >= orders[s[j]].orderDate}

\* $skip: skip, $limit: limitNum
PageOf(sorted, skip, limitNum) ==
  IF skip >= Len(sorted) THEN <<>>
  ELSE SubSeq(sorted, skip + 1,
              IF skip + limitNum < Len(sorted) THEN skip + limitNum
              ELSE Len(sorted))

\* $project of an order of the page
Projected(o) ==
  [id |-> o, orderStatus |-> orders[o].orderStatus,
   paymentStatus |-> orders[o].paymentStatus,
   totalAmount |-> orders[o].totalAmount,
   orderDate |-> orders[o].orderDate,
   itemCount |-> Len(orders[o].cartItems)]

\* Math.ceil(totalOrders / limitNum)
CeilDiv(a, b) == (a + b - 1) \div b

\* hasNext: pageNum < Math.ceil(totalOrders / limitNum)
HasNext(pageNum, limitNum, totalOrders) ==
  pageNum < CeilDiv(totalOrders, limitNum)

\* the response of the aggregation for this sorted list of matched orders
ListData(pageNum, limitNum, sorted) ==
  [orders |-> [i \in 1..Len(PageOf(sorted, (pageNum - 1) * limitNum, limitNum))
                 |-> Projected(PageOf(sorted, (pageNum - 1) * limitNum,
                                      limitNum)[i])],
   currentPage |-> pageNum,
   totalPages |-> CeilDiv(Len(sorted), limitNum),
   totalOrders |-> Len(sorted),
   hasNext |-> HasNext(pageNum, limitNum, Len(sorted)),
   hasPrev |-> pageNum > 1]

ListResp(code, key, data, fromCache) ==
  [seq |-> listOut.seq + 1, code |-> code, key |-> key, data |-> data,
   fromCache |-> fromCache]

\* getAllOrdersByUser: the cached response while its entry has not expired;
\* else the aggregation, whose response is cached.  The database refuses a
\* negative $skip and a $limit that is not positive, which is answered 500.
GetAllOrdersByUser(userId, page, limit, status) ==
  /\ listOut.seq < MaxLists
  /\ LET key == CacheKey(userId, page, limit, status)
         live == {e \in orderCache : e.key # key}
     IN IF userId = Missing
        THEN /\ listOut' = ListResp(400, key, NoListData, FALSE)
             /\ UNCHANGED orderCache
        ELSE IF OrderCacheHit(key)
        THEN /\ listOut' = ListResp(200, key,
                  (CHOOSE e \in orderCache : e.key = key).data, TRUE)
             /\ UNCHANGED orderCache
        ELSE IF (page - 1) * limit < 0 \/ limit <= 0
        THEN /\ listOut' = ListResp(500, key, NoListData, FALSE)
             /\ orderCache' = live
        ELSE \E sorted \in SortedByDate(Matched(userId, status)) :
               /\ listOut' = ListResp(200, key,
                                      ListData(page, limit, sorted), FALSE)
               /\ orderCache' = live \cup
                    {[key |-> key, data |-> ListData(page, limit, sorted),
                      expiry |-> now + ORDER_CACHE_TTL]}
  /\ UNCHANGED <<maps, mapOut, cartReq, stock, orders, carts, cr, cap, edits,
                 cartVars, reads, now>>

\* the order collection holds some saved orders of two users, and one of
\* the users asks for pages of the list
InitList ==
  /\ stock = InitStock
  /\ orders \in SeqsUpTo(StoredOrders, MaxOrders)
  /\ carts = CartIds
  /\ cr = <<>>
  /\ cap = <<>>
  /\ edits = 0
  /\ InitShop

NextList ==
  \E u \in UserInputs, page \in PageInputs, limit \in LimitInputs,
     status \in StatusInputs : GetAllOrdersByUser(u, page, limit, status)

SpecList == InitList /\ [][NextList]_vars

\* -------------------------------------------------------------- addProduct

\* what an admin sends as totalStock and price: a number, or nothing
StockInputs == {JsNum(n) : n \in -1..MaxStock} \cup {NaN}
PriceInputs == {JsNum(0), JsNum(20), JsNum(30)}

\* if (!title || !category || !price || !totalStock): undefined and 0 are
\* falsy, every other number is not
AddBodyValid(hasTitle, hasCategory, price, totalStock) ==
  ~(~hasTitle \/ ~hasCategory \/ ~price.num \/ price.n = 0
      \/ ~totalStock.num \/ totalStock.n = 0)

\* addProduct: validation, new Product({..., price: parseFloat(price),
\* salePrice: 0, totalStock: parseInt(totalStock)}), save
AddProduct(p) ==
  /\ p \notin DOMAIN stock
  /\ \E hasTitle, hasCategory \in BOOLEAN, price \in PriceInputs,
        totalStock \in StockInputs :
       IF ~AddBodyValid(hasTitle, hasCategory, price, totalStock)
       THEN UNCHANGED <<stock, prices>>
       ELSE /\ stock' = [q \in DOMAIN stock \cup {p} |->
                           IF q = p THEN totalStock.n ELSE stock[q]]
            /\ prices' = [q \in DOMAIN prices \cup {p} |->
                            IF q = p THEN [price |-> price.n, salePrice |-> 0]
                            ELSE prices[q]]
  /\ UNCHANGED <<maps, mapOut, cartReq, orders, carts, cr, cap, edits,
                 cartLines, cartCache, cartOut,
                 listVars, now>>

\* an admin fills an empty catalogue and edits the stock and the prices of
\* its products
InitAdmin ==
  /\ stock = <<>>
  /\ prices = <<>>
  /\ orders = <<>>
  /\ carts = {}
  /\ cr = <<>>
  /\ cap = <<>>
  /\ edits = 0
  /\ cartLines = [k \in CartIds |-> <<>>]
  /\ cartCache = [u \in Users |-> NoCache]
  /\ cartOut = NoCartOut
  /\ orderCache = {}
  /\ listOut = NoListOut
  /\ reads = <<>>
  /\ maps = NoMaps
  /\ mapOut = NoMapOut
  /\ cartReq = <<>>
  /\ now = 0

NextAdmin ==
  \/ \E p \in Products : AddProduct(p)
  \/ \E p \in DOMAIN stock : EditProduct(p)
  \/ \E p \in DOMAIN stock : EditProductPrice(p)

SpecAdmin == InitAdmin /\ [][NextAdmin]_vars

\* a shopper with a cart reads it, changes it and checks out while an admin
\* edits the stock: every handler that decides on stock, next to a cart
\* cache that shows the stock of an earlier read
InitStockChecks ==
  /\ stock = InitStock
  /\ orders = <<>>
  /\ carts = CartIds
  /\ cr = [r \in CreateReqs |-> IdleCreate]
  /\ cap = [c \in {1} |-> IdleCapture]
  /\ edits = 0
  /\ prices = InitPrices
  /\ cartLines \in [CartIds -> {<<[productId |-> p, quantity |-> JsNum(1)]>> :
                                  p \in Products}]
  /\ cartCache = [u \in Users |-> NoCache]
  /\ cartOut = NoCartOut
  /\ orderCache = {}
  /\ listOut = NoListOut
  /\ reads = <<>>
  /\ maps = NoMaps
  /\ mapOut = NoMapOut
  /\ cartReq = <<>>
  /\ now = 0

NextStockChecks ==
  \/ CreateNext(StorefrontBodies)
  \/ CaptureNext
  \/ \E u \in Users, p \in Products, q \in 1..MaxQty : AddToCart(u, p, JsNum(q))
  \/ \E u \in Users, p \in Products, q \in 1..MaxQty :
       UpdateCartItemQty(u, p, JsNum(q))
  \/ \E u \in Users : FetchCartItems(u)
  \/ \E p \in Products : EditProduct(p)

SpecStockChecks == InitStockChecks /\ [][NextStockChecks]_vars

\* ------------------------------ getAllOrdersByUser and getOrderDetails,
\* ------------------------------ with their database reads under way

\* the requests for orders that are followed through their await
MaxReads == 2
ReadReqs == 1..MaxReads
IdleRead == [pc |-> "idle", key |-> <<>>, data |-> NoListData]

\* `order_detail_${id}`
DetailKey(id) == <<"order_detail", id>>

\* getCachedOrder(key) of an entry that has not expired
CachedOrder(key) == (CHOOSE e \in orderCache : e.key = key).data

\* the request has its response, sent or still to be sent
ReadAt(q, pc, key, data) ==
  [reads EXCEPT ![q] = [pc |-> pc, key |-> key, data |-> data]]

\* getAllOrdersByUser up to its await: the cached response while its entry
\* has not expired, else the aggregation is run on the collection as it is
GetAllOrdersByUserRead(q, userId, page, limit, status) ==
  /\ reads[q].pc = "idle"
  /\ \A j \in 1..(q - 1) : reads[j].pc # "idle"
  /\ LET key == CacheKey(userId, page, limit, status)
         live == {e \in orderCache : e.key # key}
     IN IF userId = Missing
        THEN /\ listOut' = ListResp(400, key, NoListData, FALSE)
             /\ reads' = ReadAt(q, "done", key, NoListData)
             /\ UNCHANGED orderCache
        ELSE IF OrderCacheHit(key)
        THEN /\ listOut' = ListResp(200, key, CachedOrder(key), TRUE)
             /\ reads' = ReadAt(q, "done", key, CachedOrder(key))
             /\ UNCHANGED orderCache
        ELSE IF (page - 1) * limit < 0 \/ limit <= 0
        THEN /\ listOut' = ListResp(500, key, NoListData, FALSE)
             /\ reads' = ReadAt(q, "done", key, NoListData)
             /\ orderCache' = live
        ELSE \E sorted \in SortedByDate(Matched(userId, status)) :
               /\ reads' = ReadAt(q, "read", key,
                                  ListData(page, limit, sorted))
               /\ orderCache' = live
               /\ UNCHANGED listOut
  /\ UNCHANGED <<maps, mapOut, cartReq, stock, orders, carts, cr, cap, edits,
                 cartVars, now>>

\* getOrderDetails up to its await: the cached order while its entry has not
\* expired, else Order.findById(id) on the collection as it is
GetOrderDetailsRead(q, id) ==
  /\ reads[q].pc = "idle"
  /\ \A j \in 1..(q - 1) : reads[j].pc # "idle"
  /\ LET key == DetailKey(id)
         live == {e \in orderCache : e.key # key}
     IN IF OrderCacheHit(key)
        THEN /\ listOut' = ListResp(200, key, CachedOrder(key), TRUE)
             /\ reads' = ReadAt(q, "done", key, CachedOrder(key))
             /\ UNCHANGED orderCache
        ELSE IF id \notin DOMAIN orders
        THEN /\ listOut' = ListResp(404, key, NoListData, FALSE)
             /\ reads' = ReadAt(q, "done", key, NoListData)
             /\ orderCache' = live
        ELSE /\ reads' = ReadAt(q, "read", key, orders[id])
             /\ orderCache' = live
             /\ UNCHANGED listOut
  /\ UNCHANGED <<maps, mapOut, cartReq, stock, orders, carts, cr, cap, edits,
                 cartVars, now>>

\* the read is back: setCachedOrder(cacheKey, ...) and res.status(200)
ReadRespond(q) ==
  /\ reads[q].pc = "read"
  /\ orderCache' = {e \in orderCache : e.key # reads[q].key} \cup
       {[key |-> reads[q].key, data |-> reads[q].data,
         expiry |-> now + ORDER_CACHE_TTL]}
  /\ listOut' = ListResp(200, reads[q].key, reads[q].data, FALSE)
  /\ reads' = [reads EXCEPT ![q].pc = "done"]
  /\ UNCHANGED <<maps, mapOut, cartReq, stock, orders, carts, cr, cap, edits,
                 cartVars, now>>

\* one user checks out and pays while the list and the details of the
\* orders are asked for
InitOrderCache ==
  /\ stock = InitStock
  /\ orders = <<>>
  /\ carts = CartIds
  /\ cr = [r \in {1} |-> IdleCreate]
  /\ cap = [c \in {1} |-> IdleCapture]
  /\ edits = 0
  /\ prices = InitPrices
  /\ cartLines = [k \in CartIds |-> <<>>]
  /\ cartCache = [u \in Users |-> NoCache]
  /\ cartOut = NoCartOut
  /\ orderCache = {}
  /\ listOut = NoListOut
  /\ reads = [q \in ReadReqs |-> IdleRead]
  /\ maps = NoMaps
  /\ mapOut = NoMapOut
  /\ cartReq = <<>>
  /\ now = 0

NextOrderCache ==
  \/ CreateNext(StorefrontBodies)
  \/ CaptureNext
  \/ \E q \in ReadReqs, u \in Users, page \in 1..2, limit \in 1..MaxLimit,
        status \in StatusInputs :
       GetAllOrdersByUserRead(q, u, page, limit, status)
  \/ \E q \in ReadReqs, id \in 1..MaxOrders : GetOrderDetailsRead(q, id)
  \/ \E q \in ReadReqs : ReadRespond(q)

SpecOrderCache == InitOrderCache /\ [][NextOrderCache]_vars

\* ---------------- the Map caches: cache of the shop products controller,
\* ---------------- searchCache, adminCache and loginCache

\* the keys the lookups ask for, and the number of keys ever stored
MaxKeys == 2
MaxInserts == 1100
\* the minutes the clock is followed for
MaxWait == 10

\* const MAX_CACHE = 1000
MAX_CACHE == 1000

\* CACHE_TTL of the shop products controller, SEARCH_CACHE_TTL, CACHE_TTL of
\* the admin products controller and CACHE_TTL of the auth controller, in
\* minutes
MapTtl(m) ==
  CASE m = "cache" -> 5
    [] m = "searchCache" -> 10
    [] m = "adminCache" -> 3
    [] m = "loginCache" -> 10

\* position of the key in the Map, 0 when it has none
KeyIndex(entries, key) ==
  IF \E i \in 1..Len(entries) : entries[i].key = key
  THEN CHOOSE i \in 1..Len(entries) : entries[i].key = key
  ELSE 0

\* map.delete(key)
MapDelete(entries, key) == SelectSeq(entries, LAMBDA e : e.key # key)

\* map.set(key, {data, expiry}): an existing key keeps its place
MapSet(entries, key, expiry) ==
  IF KeyIndex(entries, key) = 0
  THEN Append(entries, [key |-> key, expiry |-> expiry])
  ELSE [entries EXCEPT ![KeyIndex(entries, key)].expiry = expiry]

\* MapHit with the entry still served at the minute of its expiry
MapHit_AtExpiry(m, key) ==
  /\ KeyIndex(maps[m], key) # 0
  /\ now <= maps[m][KeyIndex(maps[m], key)].expiry

\* item && Date.now() < item.expiry
MapHit(m, key) ==
  /\ KeyIndex(maps[m], key) # 0
  /\ now < maps[m][KeyIndex(maps[m], key)].expiry

\* getFromCache(key), getCachedSearch(keyword), getCached(email): the data
\* of a hit, else the entry is deleted and null is returned
GetFromCache(m, key) ==
  /\ mapOut' = [seq |-> 1 - mapOut.seq, map |-> m, key |-> key,
                hit |-> MapHit(m, key),
                expiry |-> IF KeyIndex(maps[m], key) = 0 THEN -1
                           ELSE maps[m][KeyIndex(maps[m], key)].expiry]
  /\ maps' = IF MapHit(m, key) THEN maps
             ELSE [maps EXCEPT ![m] = MapDelete(@, key)]
  /\ UNCHANGED <<stock, orders, carts, cr, cap, edits, cartVars, listVars,
                 now, cartReq>>

\* Evicted with nothing evicted
Evicted_Nothing(m, entries) == entries

\* what setCache, setCachedSearch and setCached delete before they set:
\* the first key when the size is above 100 (20 for adminCache), the first
\* 100 keys of loginCache when its size has reached MAX_CACHE
Evicted(m, entries) ==
  CASE m = "loginCache" ->
         IF Len(entries) >= MAX_CACHE
         THEN SubSeq(entries, 101, Len(entries)) ELSE entries
    [] m = "adminCache" ->
         IF Len(entries) > 20 THEN Tail(entries) ELSE entries
    [] OTHER ->
         IF Len(entries) > 100 THEN Tail(entries) ELSE entries

\* setCache(key, data), setCachedSearch(keyword, data), setCached(email, ...)
SetCache(m, key) ==
  /\ maps' = [maps EXCEPT ![m] = MapSet(Evicted(m, @), key, now + MapTtl(m))]
  /\ UNCHANGED <<stock, orders, carts, cr, cap, edits, cartVars, listVars,
                 now, mapOut, cartReq>>

\* a minute passes
Wait ==
  /\ now < MaxWait
  /\ now' = now + 1
  /\ UNCHANGED <<stock, orders, carts, cr, cap, edits, cartVars, listVars,
                 maps, mapOut, cartReq>>

\* the caches other than this Map are empty
OnlyMap(m) ==
  /\ \A o \in MapNames \ {m} : maps[o] = <<>>
  /\ orderCache = {}
  /\ \A u \in Users : ~cartCache[u].present

\* one cache at a time is filled and read while the minutes pass: one of
\* the Maps, the order cache through getAllOrdersByUser, or the cart cache
\* through fetchCartItems
InitTtl ==
  /\ stock = InitStock
  /\ orders = <<>>
  /\ carts = CartIds
  /\ cr = <<>>
  /\ cap = <<>>
  /\ edits = 0
  /\ InitShop

NextTtl ==
  \/ \E m \in MapNames, key \in 1..MaxKeys :
       OnlyMap(m) /\ GetFromCache(m, key)
  \/ \E m \in MapNames, key \in 1..MaxKeys : OnlyMap(m) /\ SetCache(m, key)
  \/ \E u \in Users, limit \in 1..MaxLimit :
       /\ maps = NoMaps
       /\ \A v \in Users : ~cartCache[v].present
       /\ GetAllOrdersByUser(u, 1, limit, Missing)
  \/ \E u \in Users :
       maps = NoMaps /\ orderCache = {} /\ FetchCartItems(u)
  \/ Wait

SpecTtl == InitTtl /\ [][NextTtl]_vars

\* the key stored last, 0 when none is stored
LastKey(entries) ==
  IF entries = <<>> THEN 0 ELSE entries[Len(entries)].key

\* one of the Maps is filled, with the key stored last or with a key never
\* stored before
NextMapSize ==
  \E m \in MapNames :
     /\ \A o \in MapNames \ {m} : maps[o] = <<>>
     /\ \E key \in {LastKey(maps[m]), LastKey(maps[m]) + 1}
                     \cap 1..MaxInserts : SetCache(m, key)

SpecMapSize == InitTtl /\ [][NextMapSize]_vars

\* ------------------------- createOrder: what can go wrong in the callback

\* await newlyCreatedOrder.save() rejects: the callback's promise is
\* rejected outside the handler's try, nothing is saved and nothing is sent
SaveRejects(r) ==
  /\ cr[r].pc = "gateway"
  /\ cr' = [cr EXCEPT ![r].pc = "thrown"]
  /\ UNCHANGED <<stock, orders, carts, cap, edits, cartVars, listVars, now,
                 maps, mapOut, cartReq>>

\* paymentInfo.links has no approval_url: find(...) is undefined and .href
\* throws, after the order was saved and the cache cleared
ApprovalLinkMissing(r) ==
  /\ cr[r].pc = "saved"
  /\ cr' = [cr EXCEPT ![r].pc = "thrown"]
  /\ orderCache' = ClearedOrderCache(orderCache, cr[r].userId)
  /\ UNCHANGED <<stock, orders, carts, cap, edits, cartVars, listOut, reads,
                 now, maps, mapOut, cartReq>>

\* the steps of createOrder the program itself takes once they are due: the
\* database answers the product query, and the handler sends its response
\* after the save.  The gateway's callback is in nobody's hands but the
\* gateway's: createOrder sets no timer on it.
CreateOrderProceeds ==
  \/ \E r \in DOMAIN cr : CreateOrderCheck(r)
  \/ \E r \in DOMAIN cr : CreateOrderRespond(r)

NextGateway ==
  \/ CreateNext(AllBodies)
  \/ \E r \in DOMAIN cr : SaveRejects(r)
  \/ \E r \in DOMAIN cr : ApprovalLinkMissing(r)

SpecGateway ==
  Init /\ [][NextGateway]_vars /\ WF_vars(CreateOrderProceeds)

\* ------------------- addToCart and fetchCartItems, await by await

\* the cart requests that are followed through their awaits
MaxCartReqs == 3
CartReqs == 1..MaxCartReqs
IdleCartReq ==
  [pc |-> "idle", op |-> "none", userId |-> "", productId |-> "",
   quantity |-> NaN, code |-> 0, totalStock |-> 0, cart |-> NoCart,
   lines |-> <<>>, read |-> 0, data |-> EmptyCartData]

\* the request is answered
CartAnswer(q, code, kind, data, fromCache) ==
  /\ cartOut' = CartResp(cartReq[q].op, cartReq[q].userId,
                         cartReq[q].productId, cartReq[q].quantity,
                         code, kind, data, fromCache)
  /\ cartReq' = [cartReq EXCEPT ![q].pc = "done", ![q].code = code]

\* addToCart up to its first await: validation and clearCachedCart
AddToCartStart(q, userId, productId, quantity) ==
  /\ cartReq[q].pc = "idle"
  /\ \A j \in 1..(q - 1) : cartReq[j].pc # "idle"
  /\ LET req == [cartReq[q] EXCEPT !.op = "add", !.userId = userId,
                                   !.productId = productId,
                                   !.quantity = quantity]
     IN IF ~CartBodyValid(userId, productId, quantity)
        THEN /\ cartOut' = CartResp("add", userId, productId, quantity, 400,
                                    "invalid", EmptyCartData, FALSE)
             /\ cartReq' = [cartReq EXCEPT ![q] =
                              [req EXCEPT !.pc = "done", !.code = 400]]
             /\ UNCHANGED cartCache
        ELSE /\ cartCache' = [cartCache EXCEPT ![userId] = NoCache]
             /\ cartReq' = [cartReq EXCEPT ![q] = [req EXCEPT !.pc = "product"]]
             /\ UNCHANGED cartOut
  /\ UNCHANGED <<stock, orders, carts, cr, cap, edits, prices, cartLines,
                 listVars, now, maps, mapOut>>

\* Product.findById is back: 404, the stock test, or on to Cart.findOne
AddToCartProduct(q) ==
  /\ cartReq[q].pc = "product"
  /\ IF cartReq[q].productId \notin DOMAIN stock
     THEN CartAnswer(q, 404, "noproduct", EmptyCartData, FALSE)
     ELSE IF StockBelow(ReadStock(cartReq[q].productId), cartReq[q].quantity)
     THEN CartAnswer(q, 400, "stock", EmptyCartData, FALSE)
     ELSE /\ cartReq' = [cartReq EXCEPT
                           ![q].pc = "cart",
                           ![q].totalStock = ReadStock(cartReq[q].productId)]
          /\ UNCHANGED cartOut
  /\ UNCHANGED <<stock, orders, carts, cr, cap, edits, prices, cartLines,
                 cartCache, listVars, now, maps, mapOut>>

\* Cart.findOne is back: the document found, or a new one, is changed in
\* memory (the line of the product merged, or a line pushed) and save() is
\* called
AddToCartCart(q) ==
  /\ cartReq[q].pc = "cart"
  /\ LET found == CartOf(cartReq[q].userId)
         lines == IF found = NoCart THEN <<>> ELSE cartLines[found]
     IN IF MergeExceeds(lines, cartReq[q].productId, cartReq[q].quantity,
                        cartReq[q].totalStock)
        THEN CartAnswer(q, 400, "stock", EmptyCartData, FALSE)
        ELSE /\ cartReq' = [cartReq EXCEPT
                              ![q].pc = "save",
                              ![q].cart = found,
                              ![q].read = Len(lines),
                              ![q].lines = AddedLines(lines,
                                                      cartReq[q].productId,
                                                      cartReq[q].quantity)]
             /\ UNCHANGED cartOut
  /\ UNCHANGED <<stock, orders, carts, cr, cap, edits, prices, cartLines,
                 cartCache, listVars, now, maps, mapOut>>

\* what cart.save() makes of the stored items array: a line pushed in
\* memory is pushed onto the array as it is stored, the quantity set on a
\* line is set on the line of that index
SavedOver(stored, req) ==
  IF Len(req.lines) > req.read
  THEN Append(stored, req.lines[Len(req.lines)])
  ELSE [stored EXCEPT ![LineIndex(req.lines, req.productId)].quantity =
                         req.lines[LineIndex(req.lines, req.productId)]
                           .quantity]

\* cart.save(): a new document is inserted; a changed one is updated, which
\* fails when a line was set by index and the array has since been changed
\* by a push
AddToCartSave(q) ==
  /\ cartReq[q].pc = "save"
  /\ IF cartReq[q].cart = NoCart
     THEN /\ (CartIds \cup MoreCartIds) \ carts # {}
          /\ LET k == CHOOSE k \in (CartIds \cup MoreCartIds) \ carts : TRUE
             IN /\ carts' = carts \cup {k}
                /\ cartLines' = [cartLines EXCEPT ![k] = cartReq[q].lines]
          /\ cartReq' = [cartReq EXCEPT ![q].pc = "data"]
          /\ UNCHANGED cartOut
     ELSE IF /\ Len(cartReq[q].lines) = cartReq[q].read
             /\ Len(cartLines[cartReq[q].cart]) # cartReq[q].read
     THEN /\ CartAnswer(q, 500, "error", EmptyCartData, FALSE)
          /\ UNCHANGED <<carts, cartLines>>
     ELSE /\ cartLines' = [cartLines EXCEPT ![cartReq[q].cart] =
                             SavedOver(@, cartReq[q])]
          /\ cartReq' = [cartReq EXCEPT ![q].pc = "data"]
          /\ UNCHANGED <<carts, cartOut>>
  /\ UNCHANGED <<stock, orders, cr, cap, edits, prices, cartCache, listVars,
                 now, maps, mapOut>>

\* fetchCartItems up to its await: the cached data while the entry has not
\* expired, else the entry is deleted and getOptimizedCartData called
FetchCartItemsStart(q, userId) ==
  /\ cartReq[q].pc = "idle"
  /\ \A j \in 1..(q - 1) : cartReq[j].pc # "idle"
  /\ LET req == [cartReq[q] EXCEPT !.op = "fetch", !.userId = userId]
     IN IF userId = Missing
        THEN /\ cartOut' = CartResp("fetch", userId, "", NaN, 400, "invalid",
                                    EmptyCartData, FALSE)
             /\ cartReq' = [cartReq EXCEPT ![q] =
                              [req EXCEPT !.pc = "done", !.code = 400]]
             /\ UNCHANGED cartCache
        ELSE IF CacheHit(userId)
        THEN /\ cartOut' = CartResp("fetch", userId, "", NaN, 200, "ok",
                                    cartCache[userId].data, TRUE)
             /\ cartReq' = [cartReq EXCEPT ![q] =
                              [req EXCEPT !.pc = "done", !.code = 200,
                                          !.data = cartCache[userId].data]]
             /\ UNCHANGED cartCache
        ELSE /\ cartCache' = [cartCache EXCEPT ![userId] = NoCache]
             /\ cartReq' = [cartReq EXCEPT ![q] = [req EXCEPT !.pc = "data"]]
             /\ UNCHANGED cartOut
  /\ UNCHANGED <<stock, orders, carts, cr, cap, edits, prices, cartLines,
                 listVars, now, maps, mapOut>>

\* getOptimizedCartData(userId) reads the cart and its products
CartReadData(q) ==
  /\ cartReq[q].pc = "data"
  /\ cartReq' = [cartReq EXCEPT ![q].pc = "respond",
                                ![q].data = CartData(cartReq[q].userId)]
  /\ UNCHANGED <<stock, orders, carts, cr, cap, edits, cartVars, listVars,
                 now, maps, mapOut>>

\* setCachedCart(userId, cartData) and res.status(200)
CartRespond(q) ==
  /\ cartReq[q].pc = "respond"
  /\ cartCache' = [cartCache EXCEPT ![cartReq[q].userId] =
                     CachedCart(cartReq[q].data)]
  /\ CartAnswer(q, 200, "ok", cartReq[q].data, FALSE)
  /\ UNCHANGED <<stock, orders, carts, cr, cap, edits, prices, cartLines,
                 listVars, now, maps, mapOut>>

\* a shopper without a cart sends overlapping addToCart and fetchCartItems
\* requests
InitCartRequests ==
  /\ stock = InitStock
  /\ orders = <<>>
  /\ carts = {}
  /\ cr = <<>>
  /\ cap = <<>>
  /\ edits = 0
  /\ prices = InitPrices
  /\ cartLines = [k \in CartIds \cup MoreCartIds |-> <<>>]
  /\ cartCache = [u \in Users |-> NoCache]
  /\ cartOut = NoCartOut
  /\ orderCache = {}
  /\ listOut = NoListOut
  /\ reads = <<>>
  /\ maps = NoMaps
  /\ mapOut = NoMapOut
  /\ cartReq = [q \in CartReqs |-> IdleCartReq]
  /\ now = 0

NextCartRequests ==
  \/ \E q \in CartReqs, u \in Users, p \in Products :
       AddToCartStart(q, u, p, JsNum(1))
  \/ \E q \in CartReqs : AddToCartProduct(q)
  \/ \E q \in CartReqs : AddToCartCart(q)
  \/ \E q \in CartReqs : AddToCartSave(q)
  \/ \E q \in CartReqs, u \in Users : FetchCartItemsStart(q, u)
  \/ \E q \in CartReqs : CartReadData(q)
  \/ \E q \in CartReqs : CartRespond(q)

SpecCartRequests == InitCartRequests /\ [][NextCartRequests]_vars

\* ------------------------------------------------------------------ claims

Captured(c) == cap[c].resp.kind = "captured"

\* the two products' tasks of different requests that have written stock
WroteStock(c, p) ==
  \E i \in DOMAIN cap[c].tasks :
     /\ cap[c].tasks[i].st = "saved"
     /\ orders[cap[c].orderId].cartItems[i].productId = p

\* C1: in every reachable state, under any interleaving of concurrent
\* capturePayment calls that decrement the same product, no product's stock
\* count is below zero.
C1_StockNeverNegative == \A p \in Products : stock[p] >= 0

\* two capturePayment calls have both written the stock of one product and
\* have used it up
C1_Witness ==
  \E p \in Products : \E c, d \in DOMAIN cap :
     c # d /\ WroteStock(c, p) /\ WroteStock(d, p) /\ stock[p] = 0

\* C2: two concurrent capturePayment calls on different orders with a common
\* product never both pass the stock check against the same stale value: if
\* both succeed, the stock of every product they order has been reduced by
\* the sum of both ordered quantities, and that sum did not exceed the stock
\* available before them.
C2_BothSucceedSum ==
  \A c, d \in DOMAIN cap :
     (/\ c # d
      /\ Captured(c) /\ Captured(d)
      /\ cap[c].orderId # cap[d].orderId
      /\ \A e \in DOMAIN cap \ {c, d} : cap[e].tasks = <<>>
      /\ edits = 0)
     => \A p \in Products :
          LET need == OrderQty(orders[cap[c].orderId].cartItems, p)
                      + OrderQty(orders[cap[d].orderId].cartItems, p)
          IN /\ need <= InitStock[p]
             /\ stock[p] = InitStock[p] - need

\* C3: a capturePayment call received after an earlier call for the same
\* orderId has answered success does not decrement any stock again.
C3_RetryDoesNotDecrement ==
  \A c \in DOMAIN cap :
     cap[c].retry => \A i \in DOMAIN cap[c].tasks : cap[c].tasks[i].st # "saved"

\* C4: after a capturePayment call in which all steps succeeded (and nothing
\* else touched the stock), every product of the order has lost exactly the
\* ordered quantity, the persisted order is paid/confirmed with the given
\* paymentId and payerId, and the order's cart no longer exists.
C4_CaptureSettles ==
  \A c \in DOMAIN cap :
     (/\ Captured(c)
      /\ \A e \in DOMAIN cap \ {c} : cap[e].tasks = <<>>
      /\ edits = 0)
     => LET o == orders[cap[c].orderId]
        IN /\ \A p \in Products :
                stock[p] = InitStock[p] - OrderQty(o.cartItems, p)
           /\ o.paymentStatus = "paid"
           /\ o.orderStatus = "confirmed"
           /\ o.paymentId = cap[c].paymentId
           /\ o.payerId = cap[c].payerId
           /\ o.cartId \notin carts

\* C5: in every reachable state, an order is persisted as paid/confirmed
\* only if a capturePayment call for it completed the stock decrement of all
\* its line items.
C5_PaidOnlyAfterDecrement ==
  \A o \in DOMAIN orders :
     (orders[o].paymentStatus = "paid" \/ orders[o].orderStatus = "confirmed")
     => \E c \in DOMAIN cap :
          /\ cap[c].orderId = o
          /\ cap[c].pc \in {"saved", "done"}
          /\ AllSaved(cap[c].tasks)

\* C6: once a line item of a capturePayment call has been found short of
\* stock, the remaining decrements are aborted: no line item of that call
\* that was still waiting for its stock check passes it and decrements.
C6_AbortRemaining ==
  [][\A c \in DOMAIN cap :
       (\E i \in DOMAIN cap[c].tasks : cap[c].tasks[i].st = "failed")
       => \A j \in DOMAIN cap[c].tasks :
            cap[c].tasks[j].st = "find" => cap'[c].tasks[j].st # "saving"]_vars

\* line items whose product exists with less stock than ordered
ShortItems(items) ==
  {i \in 1..Len(items) :
     /\ items[i].productId \in Products
     /\ stock[items[i].productId] < items[i].quantity}

\* line items whose product does not exist
GoneItems(items) == {i \in 1..Len(items) : items[i].productId \notin Products}

\* C7: createOrder checks live stock for every line item before contacting
\* the gateway; when the first line item (in cart order) that fails the
\* check is short of stock, the request is answered with an
\* insufficient-stock error naming that product and its available quantity,
\* the gateway has not been called and no order record is created, then or
\* later; the error is given in no other case.
C7_StockPreCheck ==
  [][\A r \in DOMAIN cr :
       /\ (cr[r].pc = "find" /\ cr'[r].pc # "find")
          => LET items == cr[r].cartItems
                 short == ShortItems(items)
                 gone == GoneItems(items)
             IN IF short # {} /\ \A g \in gone : \E i \in short : i < g
                THEN LET m == CHOOSE i \in short : \A j \in short : i <= j
                     IN /\ cr'[r].pc = "done"
                        /\ cr'[r].resp = [code |-> 400, kind |-> "insufficient",
                                          product |-> items[m].productId,
                                          avail |-> stock[items[m].productId]]
                        /\ ~cr'[r].gatewayCalled
                        /\ cr'[r].orderId = 0
                        /\ orders' = orders
                ELSE cr'[r].resp.kind # "insufficient"
       /\ cr[r].pc = "done" => cr'[r] = cr[r]]_vars

\* a createOrder whose first line item is in stock and whose second is not
\* has been refused for the second
C7_Witness ==
  \E r \in DOMAIN cr :
     /\ cr[r].resp.kind = "insufficient"
     /\ Len(cr[r].cartItems) = 2
     /\ cr[r].resp.product = cr[r].cartItems[2].productId
     /\ cr[r].cartItems[1].productId # cr[r].cartItems[2].productId
     /\ cr[r].orderId = 0 /\ orders = <<>>

\* C8: when the gateway fails to create the payment, createOrder answers
\* with a payment failure and no order record has been created for the
\* request: every order record belongs to a request that saved it.
C8_GatewayFailNoOrder ==
  /\ \A r \in DOMAIN cr :
       cr[r].resp.kind = "payfail"
       => cr[r].pc = "done" /\ cr[r].gatewayCalled /\ cr[r].orderId = 0
  /\ Len(orders) = Cardinality({r \in DOMAIN cr : cr[r].orderId # 0})
  /\ \A r \in DOMAIN cr :
       cr[r].orderId # 0 => cr[r].pc \in {"saved", "done"}
                            /\ cr[r].resp.kind \in {"none", "created"}

\* the gateway has refused the payment of a request
C8_Witness ==
  \E r \in DOMAIN cr : cr[r].resp.kind = "payfail" /\ cr[r].cartItems # <<>>

\* C9: no step of createOrder changes any product's stock, on success or on
\* any failure path; stock changes only when a capturePayment task saves its
\* product or an admin edits a product.
C9_CreateOrderKeepsStock ==
  [][/\ (\E r \in DOMAIN cr : cr'[r] # cr[r]) => stock' = stock
     /\ stock' # stock
        => \/ edits' # edits
           \/ \E c \in DOMAIN cap : \E i \in DOMAIN cap[c].tasks :
                /\ cap[c].tasks[i].st = "saving"
                /\ cap'[c].tasks[i].st = "saved"]_vars

\* a createOrder for a non-empty cart has succeeded and the stock is what it
\* was
C9_Witness ==
  \E r \in DOMAIN cr :
     /\ cr[r].resp.kind = "created"
     /\ cr[r].cartItems # <<>>
     /\ stock = InitStock /\ edits = 0

\* C10: every order record createOrder persists is pending and not paid,
\* whatever the request contains.
C10_PersistedPending ==
  [][\A o \in DOMAIN orders' :
       o \notin DOMAIN orders
       => /\ orders'[o].orderStatus = "pending"
          /\ orders'[o].paymentStatus # "paid"]_vars

\* C11: for every persisted order, totalAmount equals the sum of unit price
\* times quantity over its line items, as of the creation of the order.
C11_TotalIsSumOfLines ==
  \A o \in DOMAIN orders :
     orders[o].totalAmount = ItemsTotal(orders[o].cartItems)

\* C12: createOrder rejects a body that lacks userId, cartItems, addressInfo
\* or totalAmount, or whose cartItems is empty, with a validation error and
\* before any side effect: the gateway is not called and no order is made.
C12_InvalidBodyRejected ==
  \A r \in DOMAIN cr :
     (cr[r].pc # "idle" /\ cr[r].cartItems = <<>>)
     => /\ ~cr[r].gatewayCalled
        /\ cr[r].orderId = 0
        /\ cr[r].pc = "done" => cr[r].resp.kind = "missing"

\* ------------------------------------------------------ cart claims

\* the items array of the user's cart in the collections cs and cl
LinesIn(cs, cl, userId) ==
  IF \E k \in cs : CartOwner[k] = userId
  THEN cl[CHOOSE k \in cs : CartOwner[k] = userId]
  ELSE <<>>

\* the number of lines of the product
CountOf(lines, productId) ==
  Cardinality({i \in 1..Len(lines) : lines[i].productId = productId})

\* the quantity of the first line of the product
QtyOf(lines, productId) == lines[LineIndex(lines, productId)].quantity

\* this step is the answer of the handler op
Answers(op) == cartOut'.seq # cartOut.seq /\ cartOut'.op = op

\* C13: a successful addToCart of quantity q of a product leaves exactly one
\* line of that product in the cart, whose quantity is q more than the
\* line's quantity before (q when there was no line); so a successful add
\* of q1 followed by a successful add of q2 leaves one line of q1 + q2.
C13_AddMerges ==
  [][(Answers("add") /\ cartOut'.kind = "ok")
     => LET p == cartOut'.productId
            before == LinesIn(carts, cartLines, "u1")
            after == LinesIn(carts', cartLines', "u1")
        IN /\ CountOf(after, p) = 1
           /\ QtyOf(after, p) =
                IF CountOf(before, p) = 0 THEN cartOut'.quantity
                ELSE JsAdd(QtyOf(before, p), cartOut'.quantity)]_vars

\* an add of 1 has been merged into a line of 1
C13_Witness ==
  /\ cartOut.op = "add" /\ cartOut.kind = "ok"
  /\ cartOut.quantity = JsNum(1)
  /\ CountOf(LinesIn(carts, cartLines, "u1"), cartOut.productId) = 1
  /\ QtyOf(LinesIn(carts, cartLines, "u1"), cartOut.productId) = JsNum(2)

\* the quantity the product's line would have after an add of quantity
AddResult(lines, productId, quantity) ==
  IF CountOf(lines, productId) = 0 THEN quantity
  ELSE JsAdd(QtyOf(lines, productId), quantity)

\* C14: when an addToCart that passes the validation names a product with
\* which the resulting quantity of the line (existing plus added) would be
\* above the product's current stock, it is answered with the
\* stock-exceeded error and the stored cart is unchanged.
C14_AddStockExceeded ==
  [][(/\ Answers("add")
      /\ CartBodyValid(cartOut'.userId, cartOut'.productId, cartOut'.quantity)
      /\ cartOut'.productId \in Products
      /\ JsGt(AddResult(LinesIn(carts, cartLines, cartOut'.userId),
                        cartOut'.productId, cartOut'.quantity),
              JsNum(stock[cartOut'.productId])))
     => /\ cartOut'.code = 400 /\ cartOut'.kind = "stock"
        /\ carts' = carts /\ cartLines' = cartLines]_vars

\* an add that the stock alone would allow has been refused because of what
\* the line already holds
C14_Witness ==
  /\ cartOut.op = "add" /\ cartOut.kind = "stock"
  /\ cartOut.productId \in Products
  /\ CountOf(LinesIn(carts, cartLines, "u1"), cartOut.productId) = 1
  /\ JsLe(cartOut.quantity, JsNum(stock[cartOut.productId]))
  /\ JsGt(AddResult(LinesIn(carts, cartLines, "u1"), cartOut.productId,
                    cartOut.quantity),
          JsNum(stock[cartOut.productId]))

\* C15: an updateCartItemQty that passes the validation for a product of the
\* catalogue is answered with the stock-exceeded error when the requested
\* quantity is above the product's stock, and otherwise with a not-found
\* error when the product is not a line of the user's cart (or the user has
\* no cart); both leave the stored cart unchanged.  When it succeeds, the
\* line's quantity is the requested one and the other lines are as before.
C15_UpdateQuantity ==
  [][(/\ Answers("update")
      /\ CartBodyValid(cartOut'.userId, cartOut'.productId, cartOut'.quantity)
      /\ cartOut'.productId \in Products)
     => LET p == cartOut'.productId
            q == cartOut'.quantity
            before == LinesIn(carts, cartLines, cartOut'.userId)
            after == LinesIn(carts', cartLines', cartOut'.userId)
        IN /\ JsGt(q, JsNum(stock[p]))
              => cartOut'.code = 400 /\ cartOut'.kind = "stock"
           /\ (~JsGt(q, JsNum(stock[p])) /\ CountOf(before, p) = 0)
              => cartOut'.code = 404 /\ cartOut'.kind \in {"nocart", "noitem"}
           /\ (~JsGt(q, JsNum(stock[p])) /\ CountOf(before, p) > 0)
              => cartOut'.kind = "ok"
           /\ cartOut'.kind # "ok" => carts' = carts /\ cartLines' = cartLines
           /\ cartOut'.kind = "ok"
              => /\ Len(after) = Len(before)
                 /\ \A i \in 1..Len(before) :
                      /\ after[i].productId = before[i].productId
                      /\ after[i].quantity =
                           IF before[i].productId = p THEN q
                           ELSE before[i].quantity]_vars

\* an update of a line of the cart has been refused for the stock
C15_Witness ==
  /\ cartOut.op = "update" /\ cartOut.kind = "stock"
  /\ cartOut.productId \in Products
  /\ CountOf(LinesIn(carts, cartLines, "u1"), cartOut.productId) = 1
  /\ JsGt(cartOut.quantity, JsNum(stock[cartOut.productId]))

\* C16: a deleteCartItem that passes the validation is answered with a
\* not-found error and leaves the stored cart unchanged when the product is
\* not a line of the user's cart; when it is, exactly the product's line is
\* taken away and the other lines are unchanged.
C16_DeleteLine ==
  [][(/\ Answers("delete")
      /\ cartOut'.userId # Missing /\ cartOut'.productId # Missing)
     => LET p == cartOut'.productId
            before == LinesIn(carts, cartLines, cartOut'.userId)
            after == LinesIn(carts', cartLines', cartOut'.userId)
        IN /\ CountOf(before, p) = 0
              => /\ cartOut'.code = 404
                 /\ cartOut'.kind \in {"nocart", "noitem"}
                 /\ carts' = carts /\ cartLines' = cartLines
           /\ CountOf(before, p) > 0
              => /\ cartOut'.kind = "ok"
                 /\ after = SelectSeq(before,
                                      LAMBDA item : item.productId # p)]_vars

\* the second line of a cart of two lines has been deleted
C16_Witness ==
  /\ cartOut.op = "delete" /\ cartOut.kind = "ok"
  /\ Len(LinesIn(carts, cartLines, "u1")) = 1
  /\ LinesIn(carts, cartLines, "u1")[1].productId # cartOut.productId

\* C19: every line stored in a cart has a quantity that is a positive
\* integer, after any sequence of addToCart, updateCartItemQty and
\* deleteCartItem calls, whatever quantity the requests carry (a missing
\* one included).
C19_PositiveIntegerQty ==
  \A k \in carts : \A i \in 1..Len(cartLines[k]) :
     /\ cartLines[k][i].quantity.num
     /\ cartLines[k][i].quantity.n >= 1

\* sum of effective price * quantity over the lines, nothing rounded
RECURSIVE ExactTotal(_, _)
ExactTotal(lines, pr) ==
  IF lines = <<>> THEN JsNum(0)
  ELSE JsAdd(JsMul(JsNum(IF pr[Head(lines).productId].salePrice > 0
                         THEN pr[Head(lines).productId].salePrice
                         ELSE pr[Head(lines).productId].price),
                   Head(lines).quantity),
             ExactTotal(Tail(lines), pr))

\* C17: the cart total that a cart read returns (fetchCartItems, and the
\* data in the answer of an add, update or delete) is the sum, over the
\* lines the cart has at that moment, of effective price * quantity, with
\* the sale price as effective price when it is positive and the price
\* otherwise; also when a price has changed since the read before.
C17_TotalIsCurrent ==
  [][(cartOut'.seq # cartOut.seq /\ cartOut'.code = 200)
     => cartOut'.data.cartTotal =
          ExactTotal(LinesIn(carts', cartLines', cartOut'.userId),
                     prices')]_vars

\* C18: once a capturePayment of an order of the user has succeeded, every
\* later fetchCartItems of that user returns an empty cart.
C18_CartEmptyAfterCapture ==
  [][(/\ Answers("fetch")
      /\ cartOut'.code = 200
      /\ \E c \in DOMAIN cap :
            /\ Captured(c)
            /\ orders[cap[c].orderId].userId = cartOut'.userId)
     => cartOut'.data.items = <<>>]_vars

\* ---------------------------------------------------- listing claims

\* the _ids of the orders of a listing response, in the order of the response
ListedIds == [i \in 1..Len(listOut.data.orders) |-> listOut.data.orders[i].id]

\* elements skip + 1 .. skip + limit of a sequence, as far as it has them
Slice(s, skip, limit) ==
  [i \in 1..(IF Len(s) - skip < 0 THEN 0
             ELSE IF Len(s) - skip < limit THEN Len(s) - skip ELSE limit)
     |-> s[skip + i]]

\* the orders of ids, the one created last first
ByCreationDesc(ids) ==
  CHOOSE s \in [1..Cardinality(ids) -> ids] :
     \A i, j \in 1..Cardinality(ids) : i < j => s[i] > s[j]

\* the orderings of ids by descending orderDate
ByOrderDateDesc(ids) ==
  {s \in [1..Cardinality(ids) -> ids] :
     /\ \A i, j \in 1..Cardinality(ids) : i # j => s[i] # s[j]
     /\ \A i, j \in 1..Cardinality(ids) :
          i < j => orders[s[i]].orderDate >= orders[s[j]].orderDate}

\* the pagination flags of a response are right for its page and the total
FlagsRight(ids) ==
  /\ listOut.data.hasPrev <=> listOut.key[2] > 1
  /\ listOut.data.hasNext <=> listOut.key[2] * listOut.key[3] < Cardinality(ids)

\* C20: getAllOrdersByUser returns the orders of the user (those of the
\* status when one is asked for), sorted by creation time descending and
\* sliced to the requested page; hasPrev is true exactly when the page is
\* above 1 and hasNext exactly when there are orders beyond the page
\* according to the total count.
C20_ListingPage ==
  listOut.code = 200
  => LET ids == {o \in DOMAIN orders :
                   /\ orders[o].userId = listOut.key[1]
                   /\ listOut.key[4] # "all"
                      => orders[o].orderStatus = listOut.key[4]}
     IN /\ ListedIds = Slice(ByCreationDesc(ids),
                             (listOut.key[2] - 1) * listOut.key[3],
                             listOut.key[3])
        /\ FlagsRight(ids)

\* the listing is the page of the user's orders sorted by their orderDate
\* field, with the pagination flags as C20 says
ListingPageByOrderDate ==
  listOut.code = 200
  => LET ids == {o \in DOMAIN orders :
                   /\ orders[o].userId = listOut.key[1]
                   /\ listOut.key[4] # "all"
                      => orders[o].orderStatus = listOut.key[4]}
     IN /\ \E s \in ByOrderDateDesc(ids) :
             ListedIds = Slice(s, (listOut.key[2] - 1) * listOut.key[3],
                               listOut.key[3])
        /\ FlagsRight(ids)

\* ------------------------------------------- capture, cache and admin claims

\* the order has two line items of one product of the catalogue
HasDuplicateLines(items) ==
  \E i, j \in 1..Len(items) :
     /\ i # j
     /\ items[i].productId = items[j].productId
     /\ items[i].productId \in Products

\* C28: when an order has two line items of the same product, a successful
\* capturePayment (with nothing else touching the stock) has reduced the
\* product's stock by the sum of both quantities, and it does not succeed
\* when that sum is above the stock that was available.
C28_DuplicateLinesSum ==
  \A c \in DOMAIN cap :
     (/\ Captured(c)
      /\ HasDuplicateLines(orders[cap[c].orderId].cartItems)
      /\ \A e \in DOMAIN cap \ {c} : cap[e].tasks = <<>>
      /\ edits = 0)
     => \A p \in Products :
          /\ OrderQty(orders[cap[c].orderId].cartItems, p) <= InitStock[p]
          /\ stock[p] =
               InitStock[p] - OrderQty(orders[cap[c].orderId].cartItems, p)

\* C29: after any addProduct or editProduct call, whatever totalStock it
\* carries, the stored totalStock of every product is a non-negative
\* integer.
C29_AdminStockNonNegative == \A p \in DOMAIN stock : stock[p] >= 0

\* the totalStock some cached cart shows for the product is not the one of
\* the product store
CacheShowsOtherStock(productId) ==
  \E u \in Users : \E i \in 1..Len(cartCache[u].data.items) :
     /\ cartCache[u].present
     /\ cartCache[u].data.items[i].productId = productId
     /\ cartCache[u].data.items[i].totalStock # stock[productId]

\* C21: every stock decision is taken on the totalStock the product store
\* holds at the moment of the check, whatever a cache shows: createOrder's
\* loop passes exactly when the store covers every line item and reports
\* the store's value when it does not, a capturePayment task goes on exactly
\* when the store covers its line item and writes the store's value less
\* the quantity, and addToCart and updateCartItemQty answer the stock error
\* exactly when the resulting or requested quantity is above the store's
\* value.
C21_StockFromStore ==
  [][/\ \A r \in DOMAIN cr :
          (cr[r].pc = "find" /\ cr'[r].pc # "find")
          => /\ cr'[r].pc = "gateway"
                <=> \A i \in 1..Len(cr[r].cartItems) :
                       /\ cr[r].cartItems[i].productId \in DOMAIN stock
                       /\ stock[cr[r].cartItems[i].productId]
                            >= cr[r].cartItems[i].quantity
             /\ cr'[r].resp.kind = "insufficient"
                => cr'[r].resp.avail = stock[cr'[r].resp.product]
     /\ \A c \in DOMAIN cap : \A i \in DOMAIN cap[c].tasks :
          (cap[c].tasks[i].st = "find" /\ cap'[c].tasks[i].st # "find")
          => LET item == orders[cap[c].orderId].cartItems[i]
             IN /\ cap'[c].tasks[i].st = "saving"
                   <=> /\ item.productId \in DOMAIN stock
                       /\ stock[item.productId] >= item.quantity
                /\ cap'[c].tasks[i].st = "saving"
                   => cap'[c].tasks[i].val
                        = stock[item.productId] - item.quantity
     /\ (/\ Answers("add")
         /\ CartBodyValid(cartOut'.userId, cartOut'.productId,
                          cartOut'.quantity)
         /\ cartOut'.productId \in Products)
        => (cartOut'.kind = "stock"
            <=> JsGt(AddResult(LinesIn(carts, cartLines, cartOut'.userId),
                               cartOut'.productId, cartOut'.quantity),
                     JsNum(stock[cartOut'.productId])))
     /\ (/\ Answers("update")
         /\ CartBodyValid(cartOut'.userId, cartOut'.productId,
                          cartOut'.quantity)
         /\ cartOut'.productId \in Products)
        => (cartOut'.kind = "stock"
            <=> JsGt(cartOut'.quantity,
                     JsNum(stock[cartOut'.productId])))]_vars

\* createOrder has refused a line item for the stock of the store while a
\* cached cart shows a stock that would have covered it
C21_Witness ==
  \E r \in DOMAIN cr :
     /\ cr[r].resp.kind = "insufficient"
     /\ cr[r].resp.avail = stock[cr[r].resp.product]
     /\ CacheShowsOtherStock(cr[r].resp.product)
     /\ \E u \in Users : \E i \in 1..Len(cartCache[u].data.items) :
          /\ cartCache[u].data.items[i].productId = cr[r].resp.product
          /\ cartCache[u].data.items[i].totalStock
               >= cr[r].cartItems[1].quantity

\* C22: once capturePayment has answered its success for an order, a
\* getOrderDetails request for that order that starts afterwards is answered
\* with the order as paid and confirmed, whether from the database or from
\* the cache.
C22_DetailsAfterCapture ==
  [][\A q \in DOMAIN reads : \A c \in DOMAIN cap :
       (/\ reads[q].pc = "idle"
        /\ reads'[q].pc # "idle"
        /\ Captured(c)
        /\ reads'[q].key = DetailKey(cap[c].orderId))
       => /\ reads'[q].data.paymentStatus = "paid"
          /\ reads'[q].data.orderStatus = "confirmed"]_vars

\* no createOrder and no capturePayment request is under way, and one of
\* them has written an order of the user and answered
WritesComplete(userId) ==
  /\ \A r \in DOMAIN cr : cr[r].pc \in {"idle", "done"}
  /\ \A c \in DOMAIN cap : cap[c].pc \in {"idle", "done"}
  /\ \/ \E r \in DOMAIN cr :
          cr[r].resp.kind = "created" /\ cr[r].userId = userId
     \/ \E c \in DOMAIN cap :
          Captured(c) /\ orders[cap[c].orderId].userId = userId

\* C23: a getAllOrdersByUser request that starts after createOrder or
\* capturePayment has completed its write to the user's orders is answered,
\* for every page, limit and status, with the listing of the orders as they
\* are stored, never with a listing cached before the write.
C23_ListAfterWrite ==
  [][\A q \in DOMAIN reads :
       (/\ reads[q].pc = "idle"
        /\ reads'[q].pc # "idle"
        /\ Len(reads'[q].key) = 4
        /\ reads'[q].key[1] \in Users
        /\ WritesComplete(reads'[q].key[1]))
       => reads'[q].data \in
            {ListData(reads'[q].key[2], reads'[q].key[3], s) :
               s \in SortedByDate(Matched(reads'[q].key[1],
                                          reads'[q].key[4]))}]_vars

\* C24: a cache read returns data only strictly before the expiry of its
\* entry.  A lookup in the product, search, admin or login cache is a hit
\* exactly when the key has an entry and the time is before its expiry, and
\* after any other lookup the key has no entry; fetchCartItems and
\* getAllOrdersByUser answer from their cache exactly when the entry of the
\* key exists and has not expired, and an entry that had expired is gone and
\* replaced by one that expires a full lifetime later.
C24_NoExpiredRead ==
  [][/\ mapOut'.seq # mapOut.seq
        => LET m == mapOut'.map
               i == KeyIndex(maps[m], mapOut'.key)
           IN /\ mapOut'.hit <=> (i # 0 /\ now < maps[m][i].expiry)
              /\ ~mapOut'.hit => KeyIndex(maps'[m], mapOut'.key) = 0
     /\ (Answers("fetch") /\ cartOut'.code = 200)
        => LET u == cartOut'.userId
           IN /\ cartOut'.fromCache
                 <=> (cartCache[u].present /\ now < cartCache[u].expiry)
              /\ ~cartOut'.fromCache
                 => cartCache'[u].expiry = now + CACHE_TTL
     /\ (listOut'.seq # listOut.seq /\ listOut'.code = 200)
        => /\ listOut'.fromCache
              <=> \E e \in orderCache :
                     e.key = listOut'.key /\ now < e.expiry
           /\ ~listOut'.fromCache
              => \A e \in orderCache' :
                    e.key = listOut'.key
                    => e.expiry = now + ORDER_CACHE_TTL]_vars

\* a lookup in the search cache at the very minute its entry expires has
\* returned nothing and removed the entry
C24_Witness ==
  /\ mapOut.map = "searchCache"
  /\ ~mapOut.hit
  /\ mapOut.expiry = now
  /\ maps["searchCache"] = <<>>

\* C30: the size-limited caches stay bounded: the shop product cache and
\* the search cache never hold more than 101 entries, the admin product
\* cache never more than 21 and the login cache never more than 1000.
C30_CachesBounded ==
  /\ Len(maps["cache"]) <= 101
  /\ Len(maps["searchCache"]) <= 101
  /\ Len(maps["adminCache"]) <= 21
  /\ Len(maps["loginCache"]) <= 1000

\* the login cache is full again after its oldest keys were evicted
C30_Witness ==
  /\ Len(maps["loginCache"]) = MAX_CACHE
  /\ maps["loginCache"][1].key = 101

\* C25: every createOrder request that was received is eventually answered,
\* also when the gateway does not call back, when the save of the order
\* fails and when the payment carries no approval link.
C25_CreateOrderAnswers ==
  \A r \in CreateReqs :
     [](cr[r].pc # "idle" => <>(cr[r].pc = "done" /\ cr[r].resp.code # 0))

\* the quantity the lines hold of the product
RECURSIVE SumQty(_, _)
SumQty(lines, productId) ==
  IF lines = <<>> THEN 0
  ELSE (IF Head(lines).productId = productId THEN Head(lines).quantity.n
        ELSE 0) + SumQty(Tail(lines), productId)

\* the quantity the first n requests added of the product with success
RECURSIVE AddedQty(_, _, _)
AddedQty(n, userId, productId) ==
  IF n = 0 THEN 0
  ELSE (IF /\ cartReq[n].op = "add" /\ cartReq[n].code = 200
           /\ cartReq[n].userId = userId /\ cartReq[n].productId = productId
        THEN cartReq[n].quantity.n ELSE 0)
       + AddedQty(n - 1, userId, productId)

\* no cart request is between its awaits
CartRequestsDone == \A q \in DOMAIN cartReq : cartReq[q].pc \in {"idle", "done"}

\* C26: under any interleaving of addToCart requests of one user there is at
\* most one cart document of that user, and once the requests are answered
\* the cart holds, of every product, the quantities of all the adds that
\* were answered with success.
C26_OneCartNoLostAdd ==
  \A u \in Users :
     /\ Cardinality({k \in carts : CartOwner[k] = u}) <= 1
     /\ CartRequestsDone
        => \A p \in Products :
              SumQty(LinesIn(carts, cartLines, u), p)
                = AddedQty(Len(cartReq), u, p)

\* the second half of C26 alone
C26_NoLostAdd ==
  \A u \in Users :
     (CartRequestsDone /\ Cardinality({k \in carts : CartOwner[k] = u}) <= 1)
     => \A p \in Products :
           SumQty(LinesIn(carts, cartLines, u), p)
             = AddedQty(Len(cartReq), u, p)

\* C27: once the cart requests of a user are answered, the cache entry of
\* the user, if there is one, is the cart data computed from the stored
\* cart; and a fetch answered from the cache while no add is under way
\* returns the data of the stored cart.
C27_CacheIsCurrent ==
  [][\A u \in Users :
       /\ (CartRequestsDone' /\ cartCache'[u].present)
          => cartCache'[u].data = CartData(u)'
       /\ (/\ Answers("fetch")
           /\ cartOut'.userId = u
           /\ cartOut'.fromCache
           /\ \A q \in DOMAIN cartReq :
                cartReq[q].op = "add" => cartReq[q].pc = "done")
          => cartOut'.data = CartData(u)]_vars

====
